---- MODULE Spec2Model ----
(***************************************************************************)
(* NewsDeduplicator (src/Finance/data_process.py): the text normalizer,    *)
(* the three pairwise similarity signals, the duplicate test, the          *)
(* deduplicate loop, the loading of the source table and process_dataset,  *)
(* as a state machine.                                                     *)
(*                                                                         *)
(* A text is a sequence of Unicode code points (Python str), so that the   *)
(* character classes of the regular expressions are ranges of numbers, as  *)
(* in the source.  Fractions are kept exact as <<numerator, denominator>>  *)
(* or in thousandths where a square root is involved (see cosine).         *)
(***************************************************************************)
EXTENDS Integers, Sequences, FiniteSets, TLC

VARIABLES
    \* ---- one call of unicode_normalize and a second call on its result
    n_pc,        \* "in" | "once" | "twice"
    n_text,      \* the argument
    n_out,       \* unicode_normalize(n_text)
    n_again,     \* unicode_normalize(n_out)
    \* ---- the signals and is_duplicate on one pair of records, both ways
    s_pc,        \* "in" | "compared" | "swapped"
    s_item1,     \* the pair
    s_item2,
    s_fwd,       \* [title_sim, content_sim, semantic_dist, dup] of (item1, item2)
    s_rev,       \* the same of (item2, item1)
    \* ---- deduplicate (data_process.py:239-263), one loop step at a time
    pc,              \* "loop" (line 245) | "scan" (line 249) | "done" (line 263)
    data,            \* the argument: the records to deduplicate
    unique_items,    \* line 242
    duplicate_count, \* line 243
    item_no,         \* position in data of current_item, from 1 (i + 1 of line 245)
    scan_no,         \* position in unique_items of unique_item, from 1
    is_dup,          \* line 246
    \* ---- history, not read by the program
    corpus,          \* the argument of the first call
    run,             \* 1: deduplicate(corpus); 2: deduplicate applied to its result
    log,             \* per record processed in this call: where its scan ended
    \* ---- jaccard_similarity_minhash on two signatures, content_overlap on two texts
    j_pc,        \* "in" | "jaccard" | "overlap"
    j_sig1,      \* the signatures
    j_sig2,
    j_text1,     \* the texts
    j_text2,
    j_out,       \* jaccard_similarity_minhash(j_sig1, j_sig2)
    j_overlap,   \* content_overlap(j_text1, j_text2)
    \* ---- process_dataset (data_process.py:272-288) and the calls it makes
    p_pc,            \* "call" | "rows" | "loaded" | "dedup" | "save" | "returned" | "idle"
    csv,             \* the source file: [readable, columns, rows]
    row_no,          \* position in df of the row of line 201, from 1
    processed_items, \* line 200
    p_data,          \* line 276: what load_and_preprocess_data returned
    save_no,         \* position in data of item of line 268, from 1
    out_file,        \* the lines written to output_file, as records
    p_result,        \* what process_dataset returned
    \* ---- history, not read by the program
    calls,           \* the methods process_dataset has called, in order
    raised,          \* load_and_preprocess_data reached its except branch
    \* ---- the NewsDeduplicator instance (data_process.py:16-21)
    self,            \* [title_threshold, content_threshold, simhash_threshold,
                     \*  minhash_permutations, processed_data]
    \* ---- main() and the execution logger (main.py:87-528, execution_logger.py)
    m_pc,                \* "idle", "start", "try", "except", "done"
    global_logger,       \* the module global _execution_logger: NoLogger or a logger
    execution_logger,    \* main's local variable of that name
    execution_dirs,      \* the execution directories created; a logger is the
                         \* index of its own directory
    m_error,             \* str(e) of the exception main caught, or NoError
    printed              \* the directory of the last "saved to" message

normVars == <<n_pc, n_text, n_out, n_again>>
simVars == <<s_pc, s_item1, s_item2, s_fwd, s_rev>>
runVars == <<pc, data, unique_items, duplicate_count, item_no, scan_no, is_dup,
            corpus, run, log>>
sigVars == <<j_pc, j_sig1, j_sig2, j_text1, j_text2, j_out, j_overlap>>
pipeVars == <<p_pc, csv, row_no, processed_items, p_data, save_no, out_file,
             p_result, calls, raised>>
selfVars == <<self>>
mainVars == <<m_pc, global_logger, execution_logger, execution_dirs, m_error, printed>>
vars == <<normVars, simVars, runVars, sigVars, pipeVars, selfVars, mainVars>>

(***************************************************************************)
(* Bounds of the model.                                                    *)
(***************************************************************************)
MaxStrLen == 3          \* longest argument of unicode_normalize explored
MaxRecords == 3         \* longest list handed to deduplicate
MaxRows == 2            \* most rows of a source file
MaxSigLen == 2          \* longest signature handed to jaccard_similarity_minhash directly

(***************************************************************************)
(* Helpers on sequences.                                                   *)
(***************************************************************************)
RECURSIVE Flatten(_)
Flatten(ss) == IF ss = <<>> THEN <<>> ELSE Head(ss) \o Flatten(Tail(ss))

Max2(a, b) == IF a >= b THEN a ELSE b
Min2(a, b) == IF a <= b THEN a ELSE b

(***************************************************************************)
(* unicode_normalize, data_process.py:23-33.                               *)
(***************************************************************************)
\* The characters explored: a  SPACE  TAB  @  FULLWIDTH a (U+FF41)  U+82F9 (CJK)
NormAlphabet == {97, 32, 9, 64, 65345, 33529}

\* Python's \s and str.strip() on str: the Unicode whitespace characters.
IsSpace(c) ==
    \/ c \in 9..13
    \/ c \in 28..32
    \/ c \in {133, 160, 5760, 8232, 8233, 8239, 8287, 12288}
    \/ c \in 8192..8202

\* unicodedata.normalize('NFKC', .) on one character: the compatibility
\* characters modelled map to their ASCII counterparts, every character the
\* filter of line 32 keeps is its own NFKC form.
NFKCChar(c) ==
    CASE c \in 65313..65338 -> <<c - 65248>>     \* fullwidth A-Z
      [] c \in 65345..65370 -> <<c - 65248>>     \* fullwidth a-z
      [] c \in {160, 12288, 8239, 8287} \/ c \in 8192..8202 -> <<32>>
      [] c = 8230 -> <<46, 46, 46>>              \* HORIZONTAL ELLIPSIS
      [] OTHER -> <<c>>

\* line 28
NFKC(text) == Flatten([k \in 1..Len(text) |-> NFKCChar(text[k])])

\* line 30, re.sub(r'\s+', ' ', text): every maximal run of whitespace
\* becomes one SPACE.
RECURSIVE CollapseWS(_)
CollapseWS(text) ==
    IF text = <<>> THEN <<>>
    ELSE IF IsSpace(Head(text))
         THEN IF Len(text) >= 2 /\ IsSpace(text[2])
              THEN CollapseWS(Tail(text))
              ELSE <<32>> \o CollapseWS(Tail(text))
         ELSE <<Head(text)>> \o CollapseWS(Tail(text))

\* line 30, .strip(): leading and trailing whitespace removed.
RECURSIVE LStrip(_)
LStrip(text) ==
    IF text # <<>> /\ IsSpace(Head(text)) THEN LStrip(Tail(text)) ELSE text

RECURSIVE RStrip(_)
RStrip(text) ==
    IF text # <<>> /\ IsSpace(text[Len(text)])
    THEN RStrip(SubSeq(text, 1, Len(text) - 1))
    ELSE text

Strip(text) == RStrip(LStrip(text))

\* line 32: the characters the negated class leaves in place:
\* 一-龥, 0-9, A-Z, a-z, \s, and . ! ? , ; :
Allowed(c) ==
    \/ c \in 19968..40869
    \/ c \in 48..57
    \/ c \in 65..90
    \/ c \in 97..122
    \/ IsSpace(c)
    \/ c \in {46, 33, 63, 44, 59, 58}

\* line 32, re.sub(r'[^...]', '', text)
StripSpecial(text) == SelectSeq(text, Allowed)

\* lines 23-33
unicode_normalize(text) ==
    IF text = <<>> THEN <<>>
    ELSE StripSpecial(Strip(CollapseWS(NFKC(text))))

(***************************************************************************)
(* Exact fractions <<numerator, denominator>>, denominator > 0.            *)
(***************************************************************************)
FracGT(f, g) == f[1] * g[2] > g[1] * f[2]
FracEq(f, g) == f[1] * g[2] = g[1] * f[2]
FracLE(f, g) == f[1] * g[2] <= g[1] * f[2]

\* floor(n * 10^k / p) without leaving 32 bits, for 0 <= n and 0 < p.
RECURSIVE DivScaled(_, _, _)
DivScaled(n, p, k) ==
    IF k = 0 THEN n \div p
    ELSE (n \div p) * (10 ^ k) + DivScaled((n % p) * 10, p, k - 1)

\* floor(sqrt(n)) by bisection on lo..hi, lo*lo <= n < (hi+1)*(hi+1).
RECURSIVE ISqrtIn(_, _, _)
ISqrtIn(n, lo, hi) ==
    IF lo = hi THEN lo
    ELSE LET mid == (lo + hi + 1) \div 2
         IN  IF mid * mid <= n THEN ISqrtIn(n, mid, hi) ELSE ISqrtIn(n, lo, mid - 1)

ISqrt(n) == ISqrtIn(n, 0, 46340)

(***************************************************************************)
(* NewsDeduplicator.__init__, data_process.py:16-21.                       *)
(***************************************************************************)
title_threshold == <<4, 5>>          \* 0.8
content_threshold == <<3, 4>>        \* 0.75
simhash_threshold == 3
minhash_permutations == 128

(***************************************************************************)
(* edit_distance, data_process.py:35-56.  The value is the fraction        *)
(* 1 - dp[m][n] / max(m, n), kept as <<max_len - dp[m][n], max_len>>.      *)
(***************************************************************************)
Min3(a, b, c) == Min2(a, Min2(b, c))

\* lines 48-53, one row of dp: prev is dp[i-1][0..n], cur is dp[i][0..j-1]
\* (both as sequences, entry j at index j+1), c is s1[i-1].
RECURSIVE FillRow(_, _, _, _)
FillRow(prev, c, s2, cur) ==
    IF Len(cur) = Len(s2) + 1 THEN cur
    ELSE LET j == Len(cur)
         IN  FillRow(prev, c, s2,
                 Append(cur, IF c = s2[j]
                             THEN prev[j]
                             ELSE Min3(prev[j + 1], cur[j], prev[j]) + 1))

\* lines 41-53: rows 0..i of dp, the last one returned.
RECURSIVE DpRow(_, _, _)
DpRow(s1, s2, i) ==
    IF i = 0 THEN [j \in 1..(Len(s2) + 1) |-> j - 1]
    ELSE FillRow(DpRow(s1, s2, i - 1), s1[i], s2, <<i>>)

Levenshtein(s1, s2) == DpRow(s1, s2, Len(s1))[Len(s2) + 1]

\* A plausible slip: the distance is normalised by len(s1), not max(m, n).
edit_distance_by_first_length(s1, s2) ==
    IF s1 = <<>> \/ s2 = <<>> THEN <<0, 1>>
    ELSE <<Len(s1) - Levenshtein(s1, s2), Len(s1)>>

edit_distance(s1, s2) ==
    IF s1 = <<>> \/ s2 = <<>> THEN <<0, 1>>
    ELSE LET max_len == Max2(Len(s1), Len(s2))
         IN  <<max_len - Levenshtein(s1, s2), max_len>>

(***************************************************************************)
(* text_to_tfidf_vector and the cosine of title_similarity,                *)
(* data_process.py:58-65 and 76-83.  TfidfVectorizer with its defaults:    *)
(* lowercase, tokens are the maximal runs of two or more word characters   *)
(* (token_pattern \b\w\w+\b), idf = ln((1+n)/(1+df)) + 1 with n = 2, rows  *)
(* of tf*idf; fit_transform raises on an empty vocabulary, and line 65     *)
(* then returns the all-zero matrix.                                       *)
(***************************************************************************)
IsWordChar(c) ==
    \/ c \in 48..57
    \/ c \in 65..90
    \/ c \in 97..122
    \/ c = 95
    \/ c \in 19968..40869

Lower(c) == IF c \in 65..90 THEN c + 32 ELSE c

\* The maximal runs of word characters of text, lowercased, in order; cur is
\* the run being read.
RECURSIVE WordRuns(_, _)
WordRuns(text, cur) ==
    IF text = <<>> THEN (IF cur = <<>> THEN <<>> ELSE <<cur>>)
    ELSE IF IsWordChar(Head(text))
         THEN WordRuns(Tail(text), Append(cur, Lower(Head(text))))
         ELSE (IF cur = <<>> THEN <<>> ELSE <<cur>>) \o WordRuns(Tail(text), <<>>)

IsToken(w) == Len(w) >= 2

TfidfTokens(text) == SelectSeq(WordRuns(text, <<>>), IsToken)

\* term frequency of token t in the token sequence toks
Tf(toks, t) == Cardinality({k \in 1..Len(toks) : toks[k] = t})

TokenSet(toks) == {toks[k] : k \in 1..Len(toks)}

RECURSIVE SumOver(_, _)
SumOver(S, f) ==
    IF S = {} THEN 0
    ELSE LET x == CHOOSE y \in S : TRUE IN f[x] + SumOver(S \ {x}, f)

\* idf^2 of a term that occurs in one of the two documents, in hundredths:
\* (ln(3/2) + 1)^2 = 1.9753...; a term of both documents has idf = 1.
IdfSqOneDoc == 198

\* line 65: the vectorizer raised (no token in either text): zero vectors.
VectorizerFails(t1, t2) == TfidfTokens(t1) = <<>> /\ TfidfTokens(t2) = <<>>

\* A plausible slip: a failed vectorizer counts as a perfect match.
cosine_failure_as_match(t1, t2) ==
    IF TfidfTokens(t1) = <<>> /\ TfidfTokens(t2) = <<>> THEN 1000 ELSE 0

\* lines 77-79: cosine_similarity of the two tf-idf rows, in thousandths
\* (rounded down): 1000 * dot / sqrt(|v1|^2 * |v2|^2), and 0 when a row is
\* all zero.  The squared norms are kept in hundredths.
cosine(t1, t2) ==
    LET k1 == TfidfTokens(t1)
        k2 == TfidfTokens(t2)
        both == TokenSet(k1) \cap TokenSet(k2)
        dot == SumOver(both, [t \in both |-> Tf(k1, t) * Tf(k2, t)])
        sq1 == [t \in TokenSet(k1) |->
                   Tf(k1, t) * Tf(k1, t) * (IF t \in both THEN 100 ELSE IdfSqOneDoc)]
        sq2 == [t \in TokenSet(k2) |->
                   Tf(k2, t) * Tf(k2, t) * (IF t \in both THEN 100 ELSE IdfSqOneDoc)]
        n1 == SumOver(TokenSet(k1), sq1)
        n2 == SumOver(TokenSet(k2), sq2)
    IN  IF VectorizerFails(t1, t2) \/ n1 = 0 \/ n2 = 0 THEN 0
        ELSE ISqrt(DivScaled(dot * dot * 10000, n1 * n2, 6))

\* A plausible slip: the better of the two signals instead of their mean.
title_similarity_best_of(title1, title2) ==
    LET t1 == unicode_normalize(title1)
        t2 == unicode_normalize(title2)
        edit_sim == edit_distance(t1, t2)
        cos_sim == IF t1 # <<>> /\ t2 # <<>> THEN cosine(t1, t2) ELSE 0
    IN  IF edit_sim[1] * 1000 >= cos_sim * edit_sim[2] THEN edit_sim
        ELSE <<cos_sim, 1000>>

\* title_similarity, data_process.py:67-86: (edit_sim + cos_sim) / 2 as the
\* fraction <<edit_num * 1000 + cos_sim * edit_den, 2000 * edit_den>>.
title_similarity(title1, title2) ==
    LET t1 == unicode_normalize(title1)
        t2 == unicode_normalize(title2)
        edit_sim == edit_distance(t1, t2)
        cos_sim == IF t1 # <<>> /\ t2 # <<>> THEN cosine(t1, t2) ELSE 0
    IN  <<edit_sim[1] * 1000 + cos_sim * edit_sim[2], 2000 * edit_sim[2]>>

(***************************************************************************)
(* jieba.cut (data_process.py:91 and 134), default mode, on the texts      *)
(* modelled here, which hold ASCII letters and digits, whitespace and      *)
(* punctuation other than the full stop: a maximal run of letters and      *)
(* digits that is no dictionary entry is one word, every other character   *)
(* is a word of its own (whitespace included).                             *)
(***************************************************************************)
IsAlnum(c) == c \in 48..57 \/ c \in 65..90 \/ c \in 97..122

RECURSIVE CutFrom(_, _)
CutFrom(text, cur) ==
    IF text = <<>> THEN (IF cur = <<>> THEN <<>> ELSE <<cur>>)
    ELSE IF IsAlnum(Head(text))
         THEN CutFrom(Tail(text), Append(cur, Head(text)))
         ELSE (IF cur = <<>> THEN <<>> ELSE <<cur>>)
                  \o <<(<<Head(text)>>)>> \o CutFrom(Tail(text), <<>>)

Cut(text) == CutFrom(text, <<>>)

(***************************************************************************)
(* get_shingles, data_process.py:88-94, with its default k = 3.            *)
(***************************************************************************)
ShingleK == 3

\* ' '.join(words)
RECURSIVE JoinSpace(_)
JoinSpace(words) ==
    IF words = <<>> THEN <<>>
    ELSE IF Len(words) = 1 THEN words[1]
         ELSE words[1] \o <<32>> \o JoinSpace(Tail(words))

\* A plausible slip: the windows are built without the short-text case.
get_shingles_windows_only(text) ==
    LET t == unicode_normalize(text)
        words == Cut(t)
        k == ShingleK
    IN  {JoinSpace(SubSeq(words, i, i + k - 1)) : i \in 1..(Len(words) - k + 1)}

get_shingles(text) ==
    LET t == unicode_normalize(text)
        words == Cut(t)
        k == ShingleK
    IN  IF Len(words) < k THEN {t}
        ELSE {JoinSpace(SubSeq(words, i, i + k - 1)) : i \in 1..(Len(words) - k + 1)}

(***************************************************************************)
(* MD5 (hashlib.md5), tabulated on the words and shingles of the texts     *)
(* modelled.  Python's integers are unbounded and the digest has 128 bits: *)
(*   MD5Low64[w]  is the set of i in 0..63 with bit i of md5(w) set, all   *)
(*                that simhash reads of the digest (lines 147-148);        *)
(*   MD5High64[w] is the set of i in 64..127 with bit i of md5(w) set;     *)
(*   MD5SaltedHigh30[s][i+1] is md5(s + str(i)) >> 98, the leading 30 bits *)
(*                of the digest minhash_signature compares (line 108).     *)
(*                On the shingles tabulated, at every i the leading 30     *)
(*                bits are pairwise distinct and non-zero, so min and ==   *)
(*                on them agree with min and == on the 128-bit values.     *)
(***************************************************************************)
MD5Low64 ==
    (<<97,102>> :> {3, 5, 6, 12, 13, 14, 16, 18, 22, 24, 26, 28, 30, 36, 38, 40, 42, 44, 45, 46, 47, 48, 49, 50, 51, 52, 53, 55, 57, 61, 62, 63}) @@
    (<<44>> :> {2, 3, 4, 5, 6, 7, 9, 10, 11, 12, 16, 17, 18, 19, 20, 21, 22, 23, 24, 25, 26, 27, 28, 32, 33, 36, 38, 39, 42, 43, 44, 45, 46, 47, 48, 54, 55, 56, 59, 60, 62, 63}) @@
    (<<102,102>> :> {0, 4, 5, 10, 11, 14, 18, 19, 20, 22, 25, 27, 31, 34, 35, 36, 37, 41, 43, 45, 48, 49, 54, 57, 61, 63}) @@
    (<<101,100>> :> {0, 2, 3, 4, 14, 15, 16, 20, 21, 23, 25, 26, 31, 32, 37, 38, 39, 42, 43, 44, 49, 52, 53, 55, 57, 60, 62, 63}) @@
    (<<102,99>> :> {0, 3, 4, 12, 13, 14, 22, 23, 24, 25, 27, 29, 30, 31, 32, 33, 34, 36, 40, 42, 43, 48, 53, 54, 57, 59, 61}) @@
    (<<101,99>> :> {0, 5, 8, 9, 12, 14, 18, 22, 23, 27, 28, 30, 33, 34, 35, 36, 37, 38, 40, 41, 44, 45, 46, 53, 54, 55, 58, 61, 63}) @@
    (<<98,101>> :> {0, 3, 5, 9, 11, 15, 20, 24, 25, 29, 30, 32, 33, 34, 36, 38, 40, 42, 47, 51, 54, 55, 57, 58, 59, 60}) @@
    (<<100,100>> :> {3, 6, 7, 10, 11, 12, 14, 21, 23, 28, 30, 32, 33, 34, 35, 36, 38, 39, 40, 41, 42, 43, 44, 45, 48, 50, 51, 53, 55, 56, 57, 59, 60, 61, 62}) @@
    (<<101,101>> :> {1, 2, 3, 4, 8, 11, 12, 13, 15, 17, 22, 24, 26, 27, 28, 33, 36, 39, 40, 41, 43, 48, 49, 61, 62}) @@
    (<<97>> :> {0, 5, 6, 9, 10, 13, 16, 17, 18, 20, 21, 22, 24, 27, 29, 30, 33, 37, 38, 39, 40, 43, 44, 47, 48, 49, 54, 55, 56, 60, 61}) @@
    (<<32>> :> {0, 1, 2, 3, 4, 6, 10, 11, 13, 14, 15, 16, 19, 20, 23, 27, 29, 30, 31, 38, 41, 43, 44, 49, 52, 55, 57, 60, 62, 63}) @@
    (<<97,98>> :> {5, 7, 8, 9, 11, 13, 14, 15, 20, 21, 22, 23, 25, 28, 31, 32, 33, 35, 37, 42, 43, 44, 46, 47, 54, 56, 57, 58, 59, 61}) @@
    (<<110,97,110>> :> {3, 5, 9, 14, 15, 17, 20, 22, 23, 27, 31, 34, 35, 38, 41, 42, 43, 47, 52, 53, 54, 55, 56, 58, 61, 63})

MD5High64 ==
    (<<97,102>> :> {64, 65, 66, 67, 68, 69, 70, 71, 73, 78, 79, 80, 81, 83, 86, 88, 90, 92, 96, 97, 98, 99, 100, 101, 105, 107, 108, 109, 110, 112, 114, 116, 117, 124, 125, 126, 127}) @@
    (<<44>> :> {64, 65, 68, 69, 71, 73, 75, 76, 79, 80, 81, 85, 88, 89, 90, 91, 94, 95, 96, 97, 98, 99, 104, 105, 106, 107, 108, 110, 112, 113, 115, 118, 119, 126, 127}) @@
    (<<102,102>> :> {65, 66, 67, 69, 72, 74, 77, 79, 82, 83, 86, 88, 94, 95, 100, 101, 103, 106, 109, 110, 111, 112, 114, 115, 116, 117, 120, 121, 125, 126}) @@
    (<<101,100>> :> {65, 67, 68, 70, 76, 79, 83, 84, 90, 92, 94, 97, 98, 99, 100, 103, 105, 108, 109, 110, 112, 113, 116, 117, 118, 119, 120, 122, 124, 125, 127}) @@
    (<<102,99>> :> {65, 66, 69, 73, 75, 77, 78, 79, 80, 81, 84, 86, 87, 92, 94, 96, 97, 98, 104, 105, 109, 110, 111, 112, 113, 114, 115, 116, 118, 125, 126, 127}) @@
    (<<101,99>> :> {64, 70, 76, 77, 79, 82, 83, 85, 87, 89, 92, 93, 94, 95, 96, 97, 100, 101, 102, 103, 105, 106, 109, 110, 111, 112, 113, 116, 118, 120, 121, 122, 123, 125}) @@
    (<<98,101>> :> {67, 68, 69, 71, 72, 75, 76, 77, 80, 81, 82, 85, 86, 87, 88, 89, 90, 96, 99, 101, 103, 104, 106, 108, 110, 112, 115, 120, 124, 127}) @@
    (<<100,100>> :> {65, 67, 69, 70, 72, 73, 74, 75, 77, 78, 79, 81, 82, 83, 87, 89, 90, 96, 98, 99, 101, 102, 106, 107, 109, 111, 112, 113, 115, 117, 119, 121, 123, 124}) @@
    (<<101,101>> :> {64, 67, 68, 69, 70, 71, 72, 73, 74, 75, 78, 80, 83, 84, 86, 88, 90, 91, 92, 95, 97, 98, 99, 100, 102, 104, 110, 114, 117, 119, 123}) @@
    (<<97>> :> {67, 69, 71, 73, 74, 76, 77, 79, 80, 84, 85, 86, 87, 94, 95, 96, 99, 100, 101, 103, 104, 106, 108, 109, 110, 112, 118, 119, 122, 123}) @@
    (<<32>> :> {64, 67, 69, 73, 78, 79, 80, 82, 83, 84, 87, 88, 90, 91, 92, 93, 94, 98, 99, 100, 103, 105, 106, 107, 109, 110, 111, 112, 114, 116, 121, 124, 125, 126}) @@
    (<<97,98>> :> {66, 67, 70, 71, 72, 76, 78, 79, 81, 85, 88, 93, 94, 96, 97, 102, 106, 108, 109, 110, 111, 113, 114, 115, 116, 117, 118, 123, 124}) @@
    (<<110,97,110>> :> {64, 65, 68, 70, 72, 74, 77, 78, 80, 82, 84, 86, 88, 90, 92, 93, 94, 97, 98, 100, 101, 102, 105, 106, 107, 108, 110, 111, 113, 116, 118, 119, 120, 121, 125, 127})

MD5SaltedHigh30 ==
    (<<44,32,102,102,32,44>> :> <<
        285099330, 918073843, 404115570, 424776196, 1016426103, 153328066, 163782902, 235796700,
        693197426, 811365363, 240086109, 405294759, 371276912, 700604903, 942105882, 385927215,
        1034805549, 693988743, 573902312, 142848885, 483000021, 402346456, 898859987, 936562729,
        1030612483, 262054891, 563944503, 120674197, 902716751, 361226918, 63242421, 631912443,
        859070632, 923283948, 164852520, 741492129, 108551974, 775969535, 633324615, 673830337,
        325529857, 125187134, 81634350, 709713745, 983199912, 575562369, 546422368, 1039859307,
        405096156, 460179393, 81173622, 99134432, 763705062, 72001929, 815234137, 165691693,
        474222837, 1059792798, 61276419, 349070161, 655436496, 847896495, 409557746, 853208157,
        859293374, 1016991656, 533615129, 196917706, 361078800, 485941703, 969750661, 31469190,
        915365492, 795598972, 240084387, 55275331, 865866562, 150737633, 344770468, 757863301,
        511157976, 820463827, 944654729, 400736455, 215514594, 537396604, 342786436, 271843258,
        399066156, 991128092, 841036365, 510180633, 995596502, 118830932, 856414944, 899600225,
        1000899150, 627975607, 791373364, 142986999, 1019011784, 476939490, 86619686, 1059908677,
        362438324, 40189211, 1063334387, 395356072, 961463193, 674334345, 1012506555, 1012788012,
        889431846, 931013667, 745616086, 728025560, 749020618, 748945592, 912093955, 981985054,
        2587022, 473799634, 1060840677, 180353045, 905150133, 1447101, 92721953, 986882145>>) @@
    (<<97,102,32,44,32,102,102>> :> <<
        67987661, 348147340, 864537944, 10880595, 1059382635, 1064937107, 721446716, 738241394,
        764188976, 517593201, 174458578, 647289910, 747501393, 926786659, 268487557, 55185663,
        216003940, 251880318, 475198826, 208155337, 171968001, 11319097, 726675291, 15084999,
        338119798, 874888463, 477465742, 169511043, 979966936, 411424798, 37299905, 701954224,
        581703605, 215531666, 976798369, 956231683, 217741251, 178507159, 936266131, 108553393,
        336325226, 441010302, 405865407, 751341248, 226769144, 486303697, 677404405, 42639446,
        561633344, 1038114177, 637344537, 206102428, 243404011, 145069199, 489844307, 787303209,
        801957945, 171374931, 300133938, 916232766, 857980042, 878335598, 503627860, 706036483,
        410058932, 152785375, 785511312, 943077264, 603752294, 184345705, 865159688, 1050670641,
        485586601, 892291510, 394111318, 700010171, 794158268, 1025197751, 322039378, 743126858,
        435995787, 879083981, 183707614, 294193072, 1056921344, 830346701, 517728944, 408471364,
        737144062, 859315173, 1016369344, 464123208, 911579024, 626330621, 825551419, 922926786,
        866011720, 447716675, 839905343, 824114707, 870495272, 339172636, 436567237, 483040052,
        638876078, 561668106, 67391624, 742991195, 356328011, 298084438, 1017458698, 905532873,
        34461523, 456221339, 294477255, 291075617, 964956486, 66260028, 315601755, 868601540,
        499779090, 1036649975, 390532025, 779191144, 771327219, 198931910, 744044900, 757077613>>) @@
    (<<102,102,32,44,32,101,100>> :> <<
        976766159, 406412886, 856875593, 14085025, 197536520, 868965150, 264960238, 887791995,
        672639774, 165583470, 902635574, 854142217, 586507035, 401022941, 312640839, 339999604,
        281681473, 32706702, 682611423, 797898038, 260640928, 993017041, 178009143, 305551775,
        1016623070, 964332836, 683670735, 140017237, 204524459, 145963569, 589567468, 102108337,
        14390094, 810169383, 340173235, 260820829, 593742324, 614809158, 967737529, 962887121,
        937280242, 510457531, 58330687, 330683411, 197160146, 472436663, 716120503, 1017973414,
        885825381, 777757079, 139754227, 60904453, 36699120, 245188113, 886897249, 294393738,
        1038098445, 573642759, 558571174, 117949536, 825429482, 669874299, 815714975, 150342246,
        167885471, 523393710, 154360731, 7300584, 279580762, 327511817, 991781183, 859830541,
        354367539, 471451784, 432453365, 102176330, 744346426, 981024340, 533047679, 712945847,
        519274206, 925061159, 213040620, 987400086, 424726022, 206019798, 743645654, 22210598,
        668331401, 203726731, 178676007, 164077792, 243778374, 153039569, 1008640251, 1017004561,
        765373721, 812310922, 876722155, 474443714, 275798402, 537816196, 864247087, 861347958,
        52712705, 729375471, 552464859, 105750611, 199296840, 250189984, 315154635, 344302621,
        1059988137, 725253327, 739721208, 800474414, 461906869, 338486495, 659185081, 979559718,
        723510813, 569106486, 408384324, 540460674, 438317928, 233724363, 198046410, 478591599>>) @@
    (<<44,32,97,102,32,44>> :> <<
        30621706, 807850312, 711955261, 704355617, 487566831, 512449058, 948079598, 981204584,
        295211518, 545192557, 887481245, 86962664, 462445646, 949403852, 107397260, 1050457551,
        284409084, 831950385, 543219477, 292174254, 1017616096, 389999925, 592169866, 648046779,
        766715624, 4397606, 434021798, 491541803, 292913495, 382774023, 866981701, 621631373,
        924018782, 208970472, 496490088, 648460163, 404418263, 186529733, 1025941765, 940257212,
        433279571, 211841083, 915107711, 690395461, 1072845810, 880134422, 74843287, 566343710,
        774130206, 341946375, 141147829, 801563706, 594610826, 312112452, 935442411, 916522493,
        493807962, 466289446, 588520744, 745688068, 882376199, 424452088, 1035347557, 341204800,
        125268191, 301204068, 314893366, 353610976, 878760878, 3227391, 426180488, 276194818,
        544271026, 245835455, 728387897, 351253547, 472057201, 199906406, 458814658, 816955814,
        914578019, 557002414, 573886642, 851672325, 375110085, 1003529786, 419361622, 241681863,
        446616650, 817145415, 955740944, 25235177, 303742331, 401819958, 118055340, 184947798,
        69502273, 308007478, 277385414, 431877959, 934829855, 345814635, 978332284, 980545738,
        134948611, 396767007, 572780498, 124541922, 28537145, 629105452, 116485441, 267635613,
        330337669, 578571314, 891287151, 75424973, 847242922, 319483937, 919914829, 530971976,
        883109849, 96121301, 970391290, 969140938, 711086944, 941004340, 579536337, 961995646>>) @@
    (<<44,32,101,99,32,44>> :> <<
        780739984, 740970575, 90366197, 859059347, 17750586, 579877262, 522788257, 431088028,
        204294276, 458284372, 529593164, 837296486, 928137164, 723693125, 560640984, 461450715,
        911253972, 610535651, 46204272, 91023622, 811258505, 458875702, 316802214, 825320150,
        853348040, 715958712, 814603007, 40184956, 625199160, 38014391, 74686056, 816692858,
        295524320, 154157148, 515267037, 287911766, 932263946, 475024741, 63311846, 380603720,
        928775166, 644350551, 376647287, 414411703, 1068138047, 427097959, 714402259, 489873357,
        67696831, 334080523, 401644684, 462134418, 291546186, 817742050, 143617382, 570763577,
        748282903, 143898772, 238441875, 156736203, 790624360, 1031645881, 975811208, 247440575,
        282929333, 682654167, 951911099, 309983594, 41532984, 958777217, 188823039, 677669748,
        482666385, 38778432, 12792637, 887014190, 875350638, 913264829, 507427, 793245758,
        539749160, 405282044, 392385941, 834901780, 893210459, 187460599, 960539648, 295544634,
        919604166, 517189590, 9397935, 736468541, 413944669, 810905595, 302796044, 554505443,
        909237377, 128452963, 573054603, 788250197, 768846069, 685499192, 829768135, 368669979,
        6928817, 85868807, 162082559, 400453074, 692306289, 101196094, 490905175, 419237286,
        539129501, 829247561, 474505176, 529939454, 600053321, 617514860, 398479613, 874443912,
        93556446, 819682979, 879646034, 81188352, 1056857534, 868226462, 615270801, 581820896>>) @@
    (<<101,99,32,44,32,98,101>> :> <<
        815275163, 437988457, 776516037, 123123978, 1050994020, 598976762, 413643137, 478434571,
        92914189, 751479125, 183615634, 903261143, 967542629, 247719525, 485071320, 570887368,
        1020756186, 66934351, 746016085, 707618524, 758573271, 183458346, 401503867, 128337493,
        1046317920, 590305950, 910382923, 1032288955, 9325428, 935720161, 254942353, 886601719,
        200599537, 139456419, 299768981, 519596787, 154256415, 613304639, 670872477, 1014469537,
        204494787, 462680324, 871830644, 689825421, 225373697, 1053706747, 141378998, 218537847,
        540689857, 312673495, 835439728, 71550653, 270546317, 626486525, 825809080, 881960332,
        515687712, 144728389, 709172149, 853531099, 369412051, 60786244, 677973407, 909593382,
        350504496, 527677922, 762827400, 632727792, 485139605, 980885202, 349755890, 771204339,
        397246455, 816472074, 875674479, 880454952, 803100499, 177433094, 10220602, 430084661,
        927574068, 366295269, 249277812, 720621948, 980297020, 192123629, 696570942, 699443594,
        949624155, 148669232, 943420075, 474130849, 360011400, 830150231, 161717588, 357167718,
        595198116, 499755447, 247198412, 80895869, 110430026, 796442562, 498427314, 948321112,
        398719326, 144781322, 704673527, 842361115, 348208701, 734768716, 1018933131, 319822560,
        868302820, 446538560, 666745482, 508408899, 148471665, 1063915728, 440200809, 203665365,
        430546134, 736102573, 3732103, 344694088, 599286796, 5056536, 562151417, 789808823>>) @@
    (<<102,99,32,44,32,101,99>> :> <<
        559894861, 495252969, 278684370, 247719168, 392916045, 877133524, 723760615, 1010519892,
        90694895, 660336907, 89855697, 748957350, 736374988, 629611800, 29417694, 3836828,
        242857384, 870808559, 361989161, 986073056, 573346870, 420187914, 653659185, 103096174,
        536266496, 979682205, 189837475, 769138835, 540127909, 627788502, 130666606, 824698277,
        464222833, 2385555, 749154808, 695257362, 872990764, 481061056, 480583054, 503981600,
        1064602180, 499873868, 703427003, 204751541, 280770200, 91167101, 413828347, 799637477,
        422217569, 215592167, 172377050, 560016513, 402339998, 206631543, 358046341, 720223810,
        684673519, 692498562, 57133268, 1072726685, 503076990, 44946034, 565817633, 259571214,
        513703142, 957440011, 953551393, 361678282, 537885806, 438904237, 138187969, 775555284,
        865220724, 814171675, 94429912, 354981437, 538114215, 1049977605, 281457492, 23823704,
        623402456, 635562821, 837611342, 416383584, 224908414, 468421871, 491449209, 222462390,
        952151755, 60997712, 901750480, 467489401, 139697170, 642592513, 21261051, 1043475472,
        238416919, 1057218452, 926250315, 441212916, 772224785, 872803503, 252118803, 684437779,
        852734267, 324204306, 170634211, 753551851, 807967684, 336426504, 144552328, 26101946,
        67922569, 760544598, 901970706, 41286646, 264996312, 393926592, 571513547, 691733368,
        59040851, 1069034774, 339095689, 396460550, 172791586, 571175501, 351256136, 4821347>>) @@
    (<<44,32,98,101,32,44>> :> <<
        269745739, 897483354, 439232574, 1042464933, 955113868, 590481394, 32219302, 839603576,
        181777623, 44365526, 1057142287, 513517069, 65254415, 104358266, 561747651, 816631245,
        1013592528, 543599982, 1008987207, 617323548, 661771546, 853352975, 19886320, 663470631,
        580667651, 921575754, 674099615, 450711708, 917322173, 755677423, 481667502, 408434519,
        817775848, 933449977, 620825531, 421471056, 425203061, 130753337, 390015647, 679708651,
        395757895, 975464165, 486328478, 459925153, 434550805, 456848086, 730484811, 780610369,
        435340246, 664907260, 346093187, 169873087, 1043797936, 118164481, 838630634, 1047359689,
        310389069, 801304728, 715264146, 18600210, 484305852, 919568400, 750598933, 728020706,
        458966250, 990273504, 261961781, 263726361, 235253036, 864933804, 1028167279, 334036135,
        492257821, 149103794, 244452692, 218553267, 148982751, 450035523, 502145595, 937252252,
        294633456, 688004374, 898068223, 1073643570, 393844573, 836754248, 749414818, 312206697,
        786315965, 1016359215, 508528896, 413824609, 822219094, 436704498, 66033926, 669723009,
        910066616, 551431040, 661863679, 452416416, 891040274, 625800485, 535238411, 969036352,
        485901828, 211139094, 904652230, 925301441, 109399954, 251537125, 543541110, 616516037,
        430763956, 274635913, 471241046, 464647605, 247299310, 938336589, 914857581, 1024926236,
        951970104, 255314512, 245907388, 781594974, 79950469, 316654730, 634466723, 724988212>>) @@
    (<<44,32,101,101,32,44>> :> <<
        1050949187, 150194564, 48329704, 98984930, 862689542, 810373015, 322732220, 230795761,
        564230053, 396555995, 242747172, 70352884, 270639348, 909575195, 7441772, 317877299,
        1016816110, 137260299, 443072681, 240129888, 1016362225, 95511856, 905618703, 340945813,
        201768011, 436667014, 337119955, 572051124, 759983269, 873223161, 735948541, 1003698598,
        816880594, 71477106, 909207457, 314940871, 107951755, 82476258, 173922472, 207756581,
        556769126, 161109255, 554382095, 897611810, 646173855, 938480716, 1071814278, 600465256,
        4334631, 409062691, 963142358, 1061485706, 1050367969, 430504967, 216526157, 892041612,
        818943001, 769173024, 190709338, 637487892, 1056592656, 853937183, 562866627, 392732498,
        850102890, 679179298, 364406602, 1063569147, 883482924, 405475389, 657468134, 319667383,
        394673149, 151079537, 922478378, 717724903, 657329346, 930438045, 546885663, 916957966,
        1026535211, 590559108, 809736450, 756243635, 149550250, 978607071, 340062625, 486357930,
        157391224, 626867707, 803779599, 548087622, 432187251, 777452996, 1038262946, 983019601,
        89734759, 15294820, 116876879, 1005341892, 883414409, 234493873, 918597214, 978420152,
        191934175, 621662374, 975070054, 195116039, 28952572, 305974713, 618108906, 774970545,
        377437639, 699786475, 1035601901, 110065323, 484534759, 91693034, 799438715, 793847421,
        693782317, 190844093, 224448394, 716603220, 747076134, 624808578, 577959771, 818274208>>) @@
    (<<100,100,32,44,32,101,101>> :> <<
        694519222, 434780398, 585854029, 539343367, 1016537856, 586975104, 56306516, 632117052,
        351586487, 386792415, 837162432, 80242155, 341677418, 353562883, 274049404, 390661561,
        515044162, 200960078, 68787006, 802973719, 948543780, 542403871, 310101671, 979413650,
        622820875, 811855122, 563079534, 661375307, 804918718, 260172400, 449896717, 40791281,
        627320163, 75351158, 240650930, 290915858, 801432105, 115033091, 792073505, 449045760,
        531051823, 204595750, 489908364, 584936634, 706075109, 229887131, 425598887, 513341211,
        316884221, 746817010, 452130151, 984254060, 815091640, 698940754, 179901332, 616302457,
        795234426, 175656739, 758410862, 296613527, 45431430, 1042142097, 698912729, 538021760,
        605391893, 781233747, 775201273, 608913479, 754403545, 903550273, 561657623, 75307912,
        89697670, 944214846, 889776170, 226683186, 516504294, 998917175, 1040556906, 642408266,
        417048889, 687581212, 829500620, 205182819, 595941141, 1016213744, 320925383, 398973077,
        143740667, 892479778, 260519795, 121430551, 920570438, 75794125, 956695119, 758647878,
        539001995, 380955464, 692659093, 934675567, 531773788, 43240015, 526178291, 449493443,
        625027737, 45551907, 864216911, 1018477573, 1013381785, 419623864, 31327551, 987695903,
        483628842, 142503157, 522045899, 973434804, 1042621371, 815868755, 607626402, 209114519,
        348849739, 391035899, 83655847, 601167718, 557017091, 967434818, 731029947, 489931609>>) @@
    (<<101,101,32,44,32,102,102>> :> <<
        351951720, 66783365, 323484970, 764266826, 591248284, 860944540, 261663125, 41952455,
        643687717, 53672451, 916803427, 390075672, 1012670177, 522601046, 326116041, 108908547,
        34278622, 698751496, 768430131, 551690561, 917446416, 142816301, 404655568, 601833177,
        364933048, 218653119, 1029035832, 427561760, 565494946, 821588288, 608547846, 700192061,
        109460096, 104029115, 447825649, 496704913, 658226649, 942989825, 544450696, 735042496,
        958414607, 1047720206, 1058652079, 975532723, 435462655, 428978057, 29850774, 183094787,
        34741720, 378482577, 89104318, 323135641, 228780344, 209745014, 804958200, 977026614,
        211187685, 621396812, 798830521, 982899335, 568410788, 156071151, 446380472, 1029919442,
        122923511, 1016329674, 722936009, 309877593, 193844492, 593763913, 439238942, 861560437,
        1024042078, 532724591, 1018078867, 834972343, 145321486, 619879804, 333105272, 1017740831,
        917459259, 61692666, 1017379372, 198294096, 923306629, 698039456, 847418097, 453132686,
        5065867, 147993759, 374031058, 469673870, 575429820, 424306090, 958873386, 596386873,
        894601146, 217414950, 952666542, 903637819, 695234221, 694413384, 827067687, 731234447,
        1066905512, 414534920, 535796498, 1000479608, 888578385, 543304136, 491201135, 456502741,
        60145431, 468338214, 146297510, 332905166, 479706913, 703239151, 386201614, 101642476,
        866956122, 990938199, 587161137, 810960199, 909116305, 853605441, 175035410, 528033199>>) @@
    (<<32,32,97,32,32>> :> <<
        346438117, 973357134, 74072668, 157230514, 363942694, 352098663, 387588800, 687633441,
        99747938, 1000054064, 348094030, 787693863, 363990814, 28425920, 473225805, 44367803,
        829346187, 1031235452, 881834364, 218214657, 10976836, 951886941, 526362679, 938310685,
        108280976, 1006953810, 584777056, 892086028, 549984900, 678640262, 592429446, 828634745,
        917744465, 206320330, 515266667, 607208735, 867269575, 944142059, 473000526, 642002148,
        131871295, 258862460, 53306245, 860727409, 1036129031, 629768204, 404273284, 862567244,
        854844714, 657594267, 277091885, 987805898, 114736778, 716967699, 774773925, 418134411,
        74568381, 935739704, 112417619, 591149327, 229572685, 727429072, 115015468, 1057723727,
        1047978473, 112659264, 971944737, 914763364, 450934480, 251851880, 603090104, 500960676,
        412728243, 666390411, 262407545, 882740537, 345228717, 249210668, 735669285, 843342971,
        776660914, 551663131, 982320979, 555653582, 769074840, 913000316, 412157939, 503876924,
        363989371, 158256239, 509712206, 260071329, 75451328, 770939285, 989146326, 978789223,
        402660056, 691522215, 828906713, 625389732, 264434308, 589569307, 970365195, 976431597,
        895028268, 647154866, 26700482, 628515522, 740575980, 810766775, 828526279, 753621495,
        259510470, 28778932, 821743346, 622706788, 744315940, 436561709, 919773341, 608292433,
        503007573, 124886845, 626966412, 549489544, 588398515, 41739105, 911890198, 491544221>>) @@
    (<<97,32,32,32,97>> :> <<
        499650058, 138768254, 927673254, 881198812, 810961782, 328757550, 660988806, 310424650,
        296659471, 595917944, 856283995, 488761769, 750301290, 98703229, 1060668868, 789068189,
        143854012, 641055721, 398779530, 748845564, 319690704, 221853510, 253913292, 269146583,
        543866568, 1059346536, 142336017, 775494308, 1001555187, 986490918, 902063692, 1072037758,
        526451978, 845073822, 169615579, 124354079, 320108426, 590840158, 723608289, 588409937,
        580284437, 802015848, 332535036, 621306552, 132137653, 182844460, 179856526, 467315542,
        197881560, 367737607, 96929534, 952867184, 646698935, 996393775, 816335821, 163138911,
        871033057, 598520715, 543972990, 1035244529, 482641199, 79855636, 787854054, 630033119,
        119655898, 159518741, 544968080, 261808815, 468840950, 489775892, 27121658, 365331361,
        494063503, 836466020, 1062965715, 339435371, 817033643, 428481028, 324847861, 969593861,
        711562031, 302438982, 717426330, 968244898, 143998567, 172945465, 551138460, 600510428,
        566462621, 575917877, 549706546, 558745294, 599555205, 654263587, 560843676, 72251606,
        300807365, 1054152807, 545782253, 630622155, 193032255, 431883027, 378968141, 535146823,
        751793456, 480962599, 516739630, 1002636985, 1035326984, 5746042, 791484871, 576726819,
        396521304, 657828056, 18550373, 283890530, 297983642, 706848508, 133431847, 84555257,
        161571916, 250061457, 74011353, 308453129, 937774247, 1040856784, 731107467, 811203463>>) @@
    (<<>> :> <<
        871581729, 825397390, 839359651, 993194527, 706739614, 959876831, 94257735, 600127767,
        847003173, 292627251, 888557850, 423931728, 813872437, 826751236, 715966690, 654100255,
        835937772, 473692107, 466766013, 130256747, 641486274, 253130497, 766892532, 232410943,
        133986205, 596269697, 329042747, 12178372, 217700348, 464153286, 218484524, 811242696,
        416888060, 101382193, 953835855, 118361908, 108168505, 695202424, 694011635, 899637933,
        898720899, 218474967, 678703546, 100239449, 1036377176, 455135859, 913653029, 435267705,
        420193467, 1024848209, 808579547, 168689806, 646206981, 906699589, 698432315, 760139407,
        668487715, 481086087, 431755384, 38787448, 30064834, 533626380, 289251562, 15464181,
        982993863, 1058161449, 212169178, 483845165, 687662134, 87026094, 523170050, 951126070,
        212788282, 884439686, 727214789, 874970373, 1056302311, 171395870, 226306613, 880772559,
        1007479501, 284890207, 635319668, 1067970722, 439665317, 264111440, 620159355, 838355239,
        177088810, 496100762, 562357783, 352888495, 615712925, 641153551, 1026456332, 541774568,
        161046359, 951833747, 995052296, 723033772, 1042695399, 237829118, 992105880, 442315670,
        846741971, 426671017, 1009047443, 710896010, 686921482, 164164644, 400883296, 442717288,
        534511273, 482992786, 401878239, 181478562, 823415287, 986022776, 398202468, 33059679,
        915664241, 320192467, 673718333, 134950488, 843053673, 259769874, 27530861, 991394610>>) @@
    (<<97,98>> :> <<
        287820435, 439200221, 352088964, 644478819, 904648544, 14503456, 995959310, 138029495,
        1002258870, 135137765, 29985017, 87954845, 489118738, 974028659, 243280633, 698086219,
        665340158, 423160180, 398953326, 559401102, 619385539, 112108522, 768458523, 473886871,
        623137222, 324949453, 92051533, 553418897, 648489398, 736276315, 767063460, 428027874,
        456957997, 54035952, 1011068514, 753783100, 642889977, 217733207, 757808915, 516087396,
        28613758, 297585712, 180391154, 571009724, 441489415, 656001400, 983683133, 443217026,
        944000948, 273489017, 424180898, 171536414, 225202907, 649651203, 438584831, 299680717,
        1003158116, 1291155, 675376494, 974861514, 833903317, 8407579, 839449706, 348136711,
        358194695, 1033535030, 637356348, 452663417, 1043439888, 888074551, 153330449, 404841025,
        685750278, 347856935, 943942558, 549448320, 258444717, 939694173, 523269806, 411792794,
        527587569, 558173980, 301151105, 804546423, 331994818, 229438689, 874105235, 432498234,
        772202320, 264801005, 762897039, 480398395, 799939984, 752789779, 952240106, 470524463,
        571428247, 594477458, 143528608, 740718169, 70692721, 10761330, 1029238202, 9971100,
        928792776, 623625953, 547075726, 875995834, 90763544, 440093994, 229827104, 126480162,
        386369426, 434384858, 580761101, 343050941, 618448701, 404070746, 245588415, 613213902,
        643265839, 1051378345, 646540607, 295589057, 510042594, 129432618, 1034937421, 521131906>>) @@
    (<<110,97,110>> :> <<
        1003520354, 410397852, 824630125, 748310292, 1072029501, 522235949, 518693461, 77002599,
        493759940, 737711870, 499341268, 527556535, 382379353, 16439174, 297512474, 180441084,
        708752165, 882675494, 943884968, 897026582, 697080604, 355320933, 1018642349, 409031850,
        739971379, 383260512, 957635245, 920529024, 78824872, 863119524, 386245647, 263148661,
        890538695, 301056314, 205553350, 240823688, 568010750, 391422335, 51134159, 1003160831,
        468626883, 1071638179, 278564440, 979212929, 932394436, 924945799, 844423977, 720257282,
        1053693862, 1061812735, 621639846, 334156510, 683167988, 529140882, 56927780, 949818636,
        980969480, 483101315, 532394360, 478646980, 360047176, 268144459, 567866617, 966396491,
        582954024, 672426520, 758627331, 489903668, 957825830, 394430466, 588105448, 620086152,
        898964948, 645950361, 112875571, 304458683, 737697669, 273728847, 542020201, 805902106,
        965433402, 566330546, 11024546, 886068919, 687374046, 300496367, 201054966, 815254268,
        864610745, 280696395, 873645280, 661326463, 102578931, 938870016, 399658838, 367935163,
        892932685, 684952892, 958616738, 419839724, 994830475, 757501280, 611146004, 905464141,
        979650130, 428204368, 576490291, 997585311, 327047027, 346430884, 939620246, 670640966,
        866593755, 506415119, 852927820, 249632307, 497521498, 459016432, 985544808, 583279634,
        237922317, 135724393, 839688163, 329203552, 744539319, 435203392, 26806086, 512912505>>)

\* hash_string, data_process.py:130-132: the 128-bit digest as the set of
\* its one-bits.
hash_string(text) == MD5Low64[text] \cup MD5High64[text]

\* line 108: int(md5(shingle_bytes + str(i)).hexdigest(), 16), leading bits.
salted_hash(shingle, i) == MD5SaltedHigh30[shingle][i + 1]

(***************************************************************************)
(* minhash_signature, jaccard_similarity_minhash, content_overlap,         *)
(* data_process.py:96-128.  A signature is a sequence whose entry i+1 is   *)
(* signature[i].                                                           *)
(***************************************************************************)
SetMin(S) == CHOOSE x \in S : \A y \in S : x <= y

minhash_signature(shingles) ==
    IF shingles = {} THEN [i \in 1..minhash_permutations |-> 0]
    ELSE [i \in 1..minhash_permutations |->
             SetMin({salted_hash(s, i - 1) : s \in shingles})]

\* A plausible slip: no length check, the pairs of zip counted.
jaccard_without_length_check(sig1, sig2) ==
    <<Cardinality({k \in 1..Min2(Len(sig1), Len(sig2)) : sig1[k] = sig2[k]}),
      Len(sig1)>>

\* The value is matches / len(sig1), kept as <<matches, len(sig1)>>; a
\* denominator of 0 (two empty signatures) is the ZeroDivisionError of
\* line 118.
jaccard_similarity_minhash(sig1, sig2) ==
    IF Len(sig1) # Len(sig2) THEN <<0, 1>>
    ELSE <<Cardinality({k \in 1..Len(sig1) : sig1[k] = sig2[k]}), Len(sig1)>>

content_overlap(content1, content2) ==
    jaccard_similarity_minhash(minhash_signature(get_shingles(content1)),
                               minhash_signature(get_shingles(content2)))

(***************************************************************************)
(* simhash, hamming_distance, semantic_similarity, data_process.py:134-170.*)
(* A 64-bit value is kept as the set of its one-bits.                      *)
(***************************************************************************)
SimhashBits == 64

\* A plausible slip: every bit of the 128-bit word hashes is voted on.
simhash_of_all_digest_bits(text) ==
    LET words == Cut(unicode_normalize(text))
        features == [i \in 0..(2 * SimhashBits - 1) |->
            Cardinality({k \in 1..Len(words) : i \in hash_string(words[k])})
          - Cardinality({k \in 1..Len(words) : i \notin hash_string(words[k])})]
    IN  IF words = <<>> THEN {}
        ELSE {i \in 0..(2 * SimhashBits - 1) : features[i] > 0}

simhash(text) ==
    LET words == Cut(unicode_normalize(text))
        features == [i \in 0..(SimhashBits - 1) |->
            Cardinality({k \in 1..Len(words) : i \in hash_string(words[k])})
          - Cardinality({k \in 1..Len(words) : i \notin hash_string(words[k])})]
    IN  IF words = <<>> THEN {}
        ELSE {i \in 0..(SimhashBits - 1) : features[i] > 0}

\* A plausible slip: | in place of ^.
hamming_distance_with_or(hash1, hash2) == Cardinality(hash1 \cup hash2)

\* bin(hash1 ^ hash2).count('1')
hamming_distance(hash1, hash2) ==
    Cardinality((hash1 \ hash2) \cup (hash2 \ hash1))

semantic_similarity(content1, content2) ==
    hamming_distance(simhash(content1), simhash(content2))

(***************************************************************************)
(* is_duplicate, data_process.py:172-188.  A record (Dict) is              *)
(* [title, doc, original_index].                                           *)
(***************************************************************************)
TitleSliceLen == 100

\* item.get('title', '') or item.get('doc', '')[:100]
TitleOf(item) ==
    IF item.title # <<>> THEN item.title
    ELSE SubSeq(item.doc, 1, Min2(TitleSliceLen, Len(item.doc)))

\* A plausible slip: the thresholds are compared with >= and <.
is_duplicate_inclusive(item1, item2) ==
    /\ FracLE(title_threshold, title_similarity(TitleOf(item1), TitleOf(item2)))
    /\ FracLE(content_threshold, content_overlap(item1.doc, item2.doc))
    /\ semantic_similarity(item1.doc, item2.doc) < simhash_threshold

is_duplicate(item1, item2) ==
    /\ FracGT(title_similarity(TitleOf(item1), TitleOf(item2)), title_threshold)
    /\ FracGT(content_overlap(item1.doc, item2.doc), content_threshold)
    /\ semantic_similarity(item1.doc, item2.doc) <= simhash_threshold

(***************************************************************************)
(* The texts explored.                                                     *)
(***************************************************************************)
TitleA == <<65>>                 \* "A"
TitleB == <<66>>                 \* "B"
TitleAb == <<97, 98>>            \* "ab"
TitleAbComma == <<97, 98, 44>>   \* "ab,"
TitleCommaAb == <<44, 97, 98>>   \* ",ab"
TitleAbcdComma == <<97, 98, 99, 100, 44>>   \* "abcd,"
TitleCommaAbcd == <<44, 97, 98, 99, 100>>   \* ",abcd"
TitleAbCd == <<97, 98, 32, 99, 100>>        \* "ab cd"
Empty == <<>>                    \* ""

DocAf == <<97, 102, 44, 102, 102, 44, 101, 100>>        \* "af,ff,ed"
DocCommaAf == <<44, 97, 102, 44, 102, 102, 44, 101, 100>>   \* ",af,ff,ed"
DocFc == <<102, 99, 44, 101, 99, 44, 98, 101>>        \* "fc,ec,be"
DocFcComma == <<102, 99, 44, 101, 99, 44, 98, 101, 44>>   \* "fc,ec,be,"
DocDd == <<100, 100, 44, 101, 101, 44, 102, 102>>      \* "dd,ee,ff"
DocDdComma == <<100, 100, 44, 101, 101, 44, 102, 102, 44>> \* "dd,ee,ff,"
DocA4 == <<97, 32, 97, 32, 97, 32, 97>>             \* "a a a a"
DocA5 == <<97, 32, 97, 32, 97, 32, 97, 32, 97>>     \* "a a a a a"
DocAt == <<64>>                                      \* "@"

NoSignals == [title_sim |-> <<0, 1>>, content_sim |-> <<0, 1>>,
              semantic_dist |-> 0, dup |-> FALSE]

NormIdle ==
    /\ n_pc = "in"
    /\ n_text = <<>>
    /\ n_out = <<>>
    /\ n_again = <<>>

SimIdle ==
    /\ s_pc = "in"
    /\ s_item1 = [title |-> Empty, doc |-> Empty, original_index |-> 0]
    /\ s_item2 = [title |-> Empty, doc |-> Empty, original_index |-> 0]
    /\ s_fwd = NoSignals
    /\ s_rev = NoSignals

SigIdle ==
    /\ j_pc = "in"
    /\ j_sig1 = <<>>
    /\ j_sig2 = <<>>
    /\ j_text1 = Empty
    /\ j_text2 = Empty
    /\ j_out = <<0, 1>>
    /\ j_overlap = <<0, 1>>

PipeIdle ==
    /\ p_pc = "idle"
    /\ csv = [readable |-> FALSE, columns |-> {}, rows |-> <<>>]
    /\ row_no = 1
    /\ processed_items = <<>>
    /\ p_data = <<>>
    /\ save_no = 1
    /\ out_file = <<>>
    /\ p_result = <<>>
    /\ calls = <<>>
    /\ raised = FALSE

(***************************************************************************)
(* deduplicate, data_process.py:239-263.                                   *)
(***************************************************************************)
\* A plausible slip: current_item is compared with the record before it in
\* the input instead of with the records kept so far.
scanned_previous_input(uniques, records, k) ==
    IF k > 1 THEN <<records[k - 1]>> ELSE <<>>

\* A plausible slip: only the newest kept record is compared.
scanned_newest_only(uniques, records, k) ==
    IF uniques = <<>> THEN <<>> ELSE <<uniques[Len(uniques)]>>

\* A plausible slip: every earlier record of the input is compared, kept or not.
scanned_all_previous_input(uniques, records, k) == SubSeq(records, 1, k - 1)

\* A plausible slip: the scan starts at the second kept record.
scanned_without_oldest(uniques, records, k) ==
    IF uniques = <<>> THEN <<>> ELSE Tail(uniques)

\* A plausible slip: the current record is already in the list that is walked.
scanned_with_current(uniques, records, k) == Append(uniques, records[k])

\* line 249: the list the inner loop walks while records[k] is current_item
scanned(uniques, records, k) == uniques

\* A plausible slip: the newer record takes the place of the one it matches.
on_duplicate_replace(uniques, k, current_item) ==
    [uniques EXCEPT ![k] = current_item]

\* lines 250-253: unique_items after current_item matched uniques[k]
on_duplicate(uniques, k, current_item) == uniques

\* A plausible slip: the counter is advanced once per comparison made.
count_duplicate_per_comparison(count, compared) == count + compared

\* line 252: duplicate_count += 1, once, just before the break
count_duplicate(count, compared) == count + 1

\* A plausible slip: insert(0, current_item).
keep_in_front(uniques, current_item) == <<current_item>> \o uniques

\* line 256: unique_items.append(current_item)
keep(uniques, current_item) == Append(uniques, current_item)

\* The pool the records of a corpus are drawn from: <<title, doc>>.
DedupPool ==
    { <<TitleA, DocAf>>, <<TitleB, DocFc>>,
      <<TitleAb, DocAf>>, <<TitleAbComma, DocAf>>, <<TitleCommaAb, DocCommaAf>>,
      <<TitleAb, DocFc>> }

\* A corpus as load_and_preprocess_data builds it (lines 218-226):
\* original_index is the row number.
Corpora ==
    UNION { { [k \in 1..n |-> [title |-> f[k][1], doc |-> f[k][2], original_index |-> k - 1]]
              : f \in [1..n -> DedupPool] } : n \in 0..MaxRecords }

\* execution_logger.py:327: _execution_logger = None
NoLogger == 0

NoError == ""

\* main() is not running
MainIdle ==
    /\ m_pc = "idle"
    /\ global_logger = NoLogger
    /\ execution_logger = NoLogger
    /\ execution_dirs = <<>>
    /\ m_error = NoError
    /\ printed = NoLogger

\* __init__, lines 16-21: the fields of a new instance
NewInstance ==
    [title_threshold |-> title_threshold,
     content_threshold |-> content_threshold,
     simhash_threshold |-> simhash_threshold,
     minhash_permutations |-> minhash_permutations,
     processed_data |-> <<>>]

\* A plausible slip: the result is also stored on the instance.
on_return_storing(instance, uniques) ==
    [instance EXCEPT !.processed_data = uniques]

\* lines 258-263: the instance when deduplicate returns; no field is assigned
on_return(instance, uniques) == instance

RunIdle ==
    /\ pc = "done"
    /\ data = <<>>
    /\ unique_items = <<>>
    /\ duplicate_count = 0
    /\ item_no = 1
    /\ scan_no = 1
    /\ is_dup = FALSE
    /\ corpus = <<>>
    /\ run = 2
    /\ log = <<>>

\* lines 242-243: the call deduplicate(corpus) has set up its locals
Init ==
    /\ self = NewInstance
    /\ MainIdle
    /\ corpus \in Corpora
    /\ data = corpus
    /\ run = 1
    /\ unique_items = <<>>
    /\ duplicate_count = 0
    /\ pc = "loop"
    /\ item_no = 1
    /\ scan_no = 1
    /\ is_dup = FALSE
    /\ log = <<>>
    /\ NormIdle
    /\ SimIdle
    /\ SigIdle
    /\ PipeIdle

\* lines 245-246: the outer loop takes the next record
NextItem ==
    /\ pc = "loop"
    /\ item_no <= Len(data)
    /\ is_dup' = FALSE
    /\ scan_no' = 1
    /\ pc' = "scan"
    /\ UNCHANGED <<data, unique_items, duplicate_count, item_no, corpus, run, log>>
    /\ UNCHANGED <<normVars, simVars, sigVars, pipeVars, selfVars, mainVars>>

\* lines 249-253 (and 255 after the break): one pass of the inner loop, given
\* what is_duplicate answered
CompareStep(matched) ==
    /\ pc = "scan"
    /\ scan_no <= Len(scanned(unique_items, data, item_no))
    /\ IF matched
       THEN /\ is_dup' = TRUE
            /\ duplicate_count' = count_duplicate(duplicate_count, scan_no)
            /\ unique_items' = on_duplicate(unique_items, scan_no, data[item_no])
            /\ log' = Append(log, [idx |-> item_no, before |-> Len(unique_items),
                                   compared |-> scan_no, kept |-> FALSE])
            /\ item_no' = item_no + 1
            /\ pc' = "loop"
            /\ UNCHANGED scan_no
       ELSE /\ scan_no' = scan_no + 1
            /\ UNCHANGED <<is_dup, duplicate_count, unique_items, log, item_no, pc>>
    /\ UNCHANGED <<data, corpus, run>>
    /\ UNCHANGED <<normVars, simVars, sigVars, pipeVars, selfVars, mainVars>>

\* line 250: the pass with the answer is_duplicate gives for the two records
CompareOne ==
    CompareStep(is_duplicate(data[item_no],
                             scanned(unique_items, data, item_no)[scan_no]))

\* lines 255-256: the inner loop ran out without a match
KeepItem ==
    /\ pc = "scan"
    /\ scan_no > Len(scanned(unique_items, data, item_no))
    /\ ~is_dup
    /\ unique_items' = keep(unique_items, data[item_no])
    /\ log' = Append(log, [idx |-> item_no, before |-> Len(unique_items),
                           compared |-> scan_no - 1, kept |-> TRUE])
    /\ item_no' = item_no + 1
    /\ pc' = "loop"
    /\ UNCHANGED <<data, duplicate_count, scan_no, is_dup, corpus, run>>
    /\ UNCHANGED <<normVars, simVars, sigVars, pipeVars, selfVars, mainVars>>

\* line 263: return unique_items
Return ==
    /\ pc = "loop"
    /\ item_no > Len(data)
    /\ pc' = "done"
    /\ UNCHANGED <<data, unique_items, duplicate_count, item_no, scan_no, is_dup, corpus, run, log>>
    /\ self' = on_return(self, unique_items)
    /\ UNCHANGED <<normVars, simVars, sigVars, pipeVars, mainVars>>

\* deduplicate is called on the list the first call returned (lines 242-243)
CallOnResult ==
    /\ pc = "done"
    /\ run = 1
    /\ data' = unique_items
    /\ run' = 2
    /\ unique_items' = <<>>
    /\ duplicate_count' = 0
    /\ pc' = "loop"
    /\ item_no' = 1
    /\ scan_no' = 1
    /\ is_dup' = FALSE
    /\ log' = <<>>
    /\ UNCHANGED corpus
    /\ UNCHANGED <<normVars, simVars, sigVars, pipeVars, selfVars, mainVars>>

Next == NextItem \/ CompareOne \/ KeepItem \/ Return \/ CallOnResult

Spec == Init /\ [][Next]_vars

\* The next statement of a running call.  deduplicate is sequential code with
\* no wait and no input after the call, and is_duplicate always returns, so
\* while a call is running its next statement runs: the pass of the inner
\* loop is taken whichever answer is_duplicate gives.
RunningStep ==
    \/ NextItem
    \/ \E matched \in BOOLEAN : CompareStep(matched)
    \/ KeepItem
    \/ Return

SpecTerm == Init /\ [][Next]_vars /\ WF_vars(RunningStep)

\* ---- several deduplicate calls on one instance (lines 239-263) ----

MaxCalls == 2

RunRecords ==
    { [title |-> TitleAb, doc |-> DocAf, original_index |-> 0],
      [title |-> TitleAbComma, doc |-> DocAf, original_index |-> 1],
      [title |-> TitleB, doc |-> DocFc, original_index |-> 2] }

\* the non-empty lists of distinct records
RunInputs ==
    UNION { { f \in [1..n -> RunRecords] : \A a, b \in 1..n : a # b => f[a] # f[b] }
            : n \in 1..Cardinality(RunRecords) }

\* A plausible slip: the list of kept records lives on between calls.
unique_items_kept_from_previous_call(previous) == previous

\* line 242: unique_items = [] is a new local list in every call
fresh_unique_items(previous) == <<>>

RunsInit ==
    /\ self = NewInstance
    /\ MainIdle
    /\ corpus \in RunInputs
    /\ data = corpus
    /\ run = 1
    /\ unique_items = <<>>
    /\ duplicate_count = 0
    /\ pc = "loop"
    /\ item_no = 1
    /\ scan_no = 1
    /\ is_dup = FALSE
    /\ log = <<>>
    /\ NormIdle
    /\ SimIdle
    /\ SigIdle
    /\ PipeIdle

\* lines 242-243: deduplicate is called again on the same instance
CallAgain ==
    /\ pc = "done"
    /\ run < MaxCalls
    /\ \E input \in RunInputs :
          /\ corpus' = input
          /\ data' = input
    /\ run' = run + 1
    /\ unique_items' = fresh_unique_items(unique_items)
    /\ duplicate_count' = 0
    /\ pc' = "loop"
    /\ item_no' = 1
    /\ scan_no' = 1
    /\ is_dup' = FALSE
    /\ log' = <<>>
    /\ UNCHANGED <<normVars, simVars, sigVars, pipeVars, selfVars, mainVars>>

RunsNext == NextItem \/ CompareOne \/ KeepItem \/ Return \/ CallAgain

SpecRuns == RunsInit /\ [][RunsNext]_vars


(***************************************************************************)
(* Specification SpecSim: the three signals and is_duplicate on every pair *)
(* of records of SimPool, in both argument orders.                         *)
(***************************************************************************)
SimTitles == {TitleA, TitleB, TitleAb, TitleAbComma, TitleCommaAb,
              TitleAbcdComma, TitleCommaAbcd, TitleAbCd, Empty}
SimDocs == {DocAf, DocCommaAf, DocFc, DocFcComma, DocDd, DocDdComma,
            DocA4, DocA5, DocAt, Empty}
SimPool ==
    [title : SimTitles, doc : {DocAf}, original_index : {0}]
      \cup [title : {TitleAb}, doc : SimDocs, original_index : {0}]
      \cup [title : {Empty}, doc : {DocAf, DocCommaAf, DocAt, Empty}, original_index : {0}]

\* lines 175-188 on (item1, item2): the three signals and the verdict
Signals(item1, item2) ==
    [title_sim |-> title_similarity(TitleOf(item1), TitleOf(item2)),
     content_sim |-> content_overlap(item1.doc, item2.doc),
     semantic_dist |-> semantic_similarity(item1.doc, item2.doc),
     dup |-> is_duplicate(item1, item2)]

SimInit ==
    /\ self = NewInstance
    /\ MainIdle
    /\ s_pc = "in"
    /\ s_item1 \in SimPool
    /\ s_item2 \in SimPool
    /\ s_fwd = NoSignals
    /\ s_rev = NoSignals
    /\ NormIdle
    /\ RunIdle
    /\ SigIdle
    /\ PipeIdle

Compare ==
    /\ s_pc = "in"
    /\ s_fwd' = Signals(s_item1, s_item2)
    /\ s_pc' = "compared"
    /\ UNCHANGED <<s_item1, s_item2, s_rev>>
    /\ UNCHANGED <<normVars, runVars, sigVars, pipeVars, selfVars, mainVars>>

CompareSwapped ==
    /\ s_pc = "compared"
    /\ s_rev' = Signals(s_item2, s_item1)
    /\ s_pc' = "swapped"
    /\ UNCHANGED <<s_item1, s_item2, s_fwd>>
    /\ UNCHANGED <<normVars, runVars, sigVars, pipeVars, selfVars, mainVars>>

SimNext == Compare \/ CompareSwapped

SpecSim == SimInit /\ [][SimNext]_vars

(***************************************************************************)
(* Specification SpecNorm: unicode_normalize applied to every text of at   *)
(* most MaxStrLen characters of NormAlphabet, then applied to its result.  *)
(***************************************************************************)
RECURSIVE TextsUpTo(_, _)
TextsUpTo(alphabet, n) ==
    IF n = 0 THEN {<<>>}
    ELSE LET shorter == TextsUpTo(alphabet, n - 1)
         IN  shorter \cup {Append(t, c) : t \in shorter, c \in alphabet}

NormInit ==
    /\ self = NewInstance
    /\ MainIdle
    /\ n_pc = "in"
    /\ n_text \in TextsUpTo(NormAlphabet, MaxStrLen)
    /\ n_out = <<>>
    /\ n_again = <<>>
    /\ SimIdle
    /\ RunIdle
    /\ SigIdle
    /\ PipeIdle

Normalize ==
    /\ n_pc = "in"
    /\ n_out' = unicode_normalize(n_text)
    /\ n_pc' = "once"
    /\ UNCHANGED <<n_text, n_again>>
    /\ UNCHANGED <<simVars, runVars, sigVars, pipeVars, selfVars, mainVars>>

NormalizeAgain ==
    /\ n_pc = "once"
    /\ n_again' = unicode_normalize(n_out)
    /\ n_pc' = "twice"
    /\ UNCHANGED <<n_text, n_out>>
    /\ UNCHANGED <<simVars, runVars, sigVars, pipeVars, selfVars, mainVars>>

NormNext == Normalize \/ NormalizeAgain

SpecNorm == NormInit /\ [][NormNext]_vars

(***************************************************************************)
(* Specification SpecSig: jaccard_similarity_minhash on every pair of      *)
(* signatures of at most MaxSigLen entries, then content_overlap on every  *)
(* pair of texts of SigTexts.                                              *)
(***************************************************************************)
SigValues == {0, 1}
Signatures == TextsUpTo(SigValues, MaxSigLen)
SigTexts == {DocAf, DocCommaAf, DocA4, DocA5, DocAt, Empty, TitleAb}

SigInit ==
    /\ self = NewInstance
    /\ MainIdle
    /\ SigIdle
    /\ NormIdle
    /\ SimIdle
    /\ RunIdle
    /\ PipeIdle

Jaccard ==
    /\ j_pc = "in"
    /\ \E sig1, sig2 \in Signatures :
          /\ j_sig1' = sig1
          /\ j_sig2' = sig2
          /\ j_out' = jaccard_similarity_minhash(sig1, sig2)
    /\ j_pc' = "jaccard"
    /\ UNCHANGED <<j_text1, j_text2, j_overlap>>
    /\ UNCHANGED <<normVars, simVars, runVars, pipeVars, selfVars, mainVars>>

ContentOverlap ==
    /\ j_pc = "jaccard"
    /\ \E content1, content2 \in SigTexts :
          /\ j_text1' = content1
          /\ j_text2' = content2
          /\ j_overlap' = content_overlap(content1, content2)
    /\ j_pc' = "overlap"
    /\ UNCHANGED <<j_sig1, j_sig2, j_out>>
    /\ UNCHANGED <<normVars, simVars, runVars, pipeVars, selfVars, mainVars>>

SigNext == Jaccard \/ ContentOverlap

SpecSig == SigInit /\ [][SigNext]_vars

(***************************************************************************)
(* load_and_preprocess_data, data_process.py:190-237.                      *)
(* A Python value read from the table is [isna, text]: isna is what        *)
(* pd.isna gives for it and text is str(value).  A value of a cell is a    *)
(* string or NaN (read_csv reads an empty field as NaN); row.get gives     *)
(* its default when the table has no such column.                          *)
(***************************************************************************)
PyStr(text) == [isna |-> FALSE, text |-> text]
NaN == [isna |-> TRUE, text |-> <<110, 97, 110>>]          \* str(nan) = "nan"
None == [isna |-> TRUE, text |-> <<78, 111, 110, 101>>]    \* str(None) = "None"

str(value) == value.text
notna(value) == ~value.isna

\* a or b, on two str
Or(a, b) == IF a # <<>> THEN a ELSE b

\* row.get(key, default)
row_get(row, columns, key, default) ==
    IF key \in columns THEN row[key] ELSE default

\* "risk_score:"
RiskScorePrefix == <<114, 105, 115, 107, 95, 115, 99, 111, 114, 101, 58>>

\* line 203
article_content(row, columns) ==
    Or(str(row_get(row, columns, "Article", PyStr(<<>>))),
       str(row_get(row, columns, "Textrank_summary", PyStr(<<>>))))

\* lines 209-210
labels(row, columns) ==
    LET risk_score == row_get(row, columns, "risk_deepseek", PyStr(<<>>))
    IN  IF notna(risk_score) THEN RiskScorePrefix \o str(risk_score) ELSE <<>>

\* lines 203-226: the record built from the row at position index
processed_item(row, columns, index) ==
    [source |-> "local_csv",
     doc |-> unicode_normalize(article_content(row, columns)),
     labels |-> labels(row, columns),
     title |-> unicode_normalize(
                   Or(str(row_get(row, columns, "Article_title", PyStr(<<>>))),
                      str(row_get(row, columns, "Stock_symbol", PyStr(<<>>))))),
     stock_symbol |-> IF notna(row_get(row, columns, "Stock_symbol", None))
                      THEN str(row_get(row, columns, "Stock_symbol", PyStr(<<>>)))
                      ELSE <<>>,
     date |-> IF notna(row_get(row, columns, "Date", None))
              THEN str(row_get(row, columns, "Date", PyStr(<<>>)))
              ELSE <<>>,
     original_index |-> index]

\* A plausible slip: every row is kept.
keeps_all(item) == TRUE

\* line 228: if processed_item['doc']
keeps(item) == item.doc # <<>>

\* A plausible slip: the except branch returns the rows processed so far.
on_exception_partial(items) == items

\* lines 234-237: what the except branch returns
on_exception(items) == <<>>

\* A plausible slip: the output is written while deduplicate is running.
may_save_early(stage, dedup_pc) == stage = "dedup"

\* lines 283-286: save_to_jsonl is called when deduplicate has returned
may_save(stage, dedup_pc) == stage = "dedup" /\ dedup_pc = "done"

\* The columns of the source file and the tables explored.
ColumnNames == {"Article", "Textrank_summary", "Article_title", "Stock_symbol",
                "risk_deepseek", "Date"}

Schemas == { ColumnNames,
             ColumnNames \ {"Article"},
             ColumnNames \ {"risk_deepseek"},
             {"Textrank_summary"},
             {"Article_title", "Stock_symbol"} }

Row(article, summary, title, symbol, risk, date) ==
    [c \in ColumnNames |->
        CASE c = "Article" -> article
          [] c = "Textrank_summary" -> summary
          [] c = "Article_title" -> title
          [] c = "Stock_symbol" -> symbol
          [] c = "risk_deepseek" -> risk
          [] c = "Date" -> date]

TextScore == <<51, 46, 48>>      \* "3.0"
TextSymbol == <<65, 66>>         \* "AB"
TextDate == <<50, 48, 50, 51>>   \* "2023"

RowPool ==
    { Row(PyStr(DocAf), PyStr(DocCommaAf), PyStr(TitleAb), PyStr(TextSymbol),
          PyStr(TextScore), PyStr(TextDate)),
      Row(NaN, PyStr(DocCommaAf), PyStr(TitleAbComma), PyStr(TextSymbol), NaN, NaN),
      Row(PyStr(DocAt), NaN, PyStr(TitleAb), NaN, PyStr(TextScore), PyStr(TextDate)),
      Row(PyStr(DocAf), NaN, NaN, NaN, NaN, PyStr(TextDate)),
      Row(NaN, NaN, PyStr(TitleA), PyStr(TextSymbol), PyStr(TextScore), NaN),
      Row(PyStr(DocCommaAf), PyStr(DocAf), PyStr(TitleCommaAb), PyStr(TextSymbol),
          NaN, PyStr(TextDate)) }

Tables ==
    UNION { [readable : {TRUE}, columns : Schemas, rows : [1..n -> RowPool]]
            : n \in 0..MaxRows }
      \cup {[readable |-> FALSE, columns |-> {}, rows |-> <<>>]}

(***************************************************************************)
(* Specification SpecPipe: process_dataset, data_process.py:272-288, on    *)
(* every table of Tables: load_and_preprocess_data row by row, then        *)
(* deduplicate (the actions of Spec), then save_to_jsonl item by item.     *)
(***************************************************************************)
\* line 276: process_dataset calls load_and_preprocess_data
PipeInit ==
    /\ self = NewInstance
    /\ MainIdle
    /\ p_pc = "call"
    /\ csv \in Tables
    /\ row_no = 1
    /\ processed_items = <<>>
    /\ p_data = <<>>
    /\ save_no = 1
    /\ out_file = <<>>
    /\ p_result = <<>>
    /\ calls = <<"load_and_preprocess_data">>
    /\ raised = FALSE
    /\ NormIdle
    /\ SimIdle
    /\ RunIdle
    /\ SigIdle

\* lines 196-200: read_csv succeeded
ReadCsv ==
    /\ p_pc = "call"
    /\ csv.readable
    /\ processed_items' = <<>>
    /\ row_no' = 1
    /\ p_pc' = "rows"
    /\ UNCHANGED <<csv, p_data, save_no, out_file, p_result, calls, raised>>
    /\ UNCHANGED <<normVars, simVars, runVars, sigVars, selfVars, mainVars>>

\* lines 196 and 234-237: read_csv raised
ReadCsvRaises ==
    /\ p_pc = "call"
    /\ ~csv.readable
    /\ raised' = TRUE
    /\ p_data' = on_exception(processed_items)
    /\ p_pc' = "loaded"
    /\ UNCHANGED <<csv, row_no, processed_items, save_no, out_file, p_result, calls>>
    /\ UNCHANGED <<normVars, simVars, runVars, sigVars, selfVars, mainVars>>

\* lines 201-229: one row
LoadRow ==
    /\ p_pc = "rows"
    /\ row_no <= Len(csv.rows)
    /\ LET item == processed_item(csv.rows[row_no], csv.columns, row_no - 1)
       IN  processed_items' = IF keeps(item) THEN Append(processed_items, item)
                              ELSE processed_items
    /\ row_no' = row_no + 1
    /\ UNCHANGED <<p_pc, csv, p_data, save_no, out_file, p_result, calls, raised>>
    /\ UNCHANGED <<normVars, simVars, runVars, sigVars, selfVars, mainVars>>

\* lines 201-229 and 234-237: something in the loop body raised
LoadRowRaises ==
    /\ p_pc = "rows"
    /\ row_no <= Len(csv.rows)
    /\ raised' = TRUE
    /\ p_data' = on_exception(processed_items)
    /\ p_pc' = "loaded"
    /\ UNCHANGED <<csv, row_no, processed_items, save_no, out_file, p_result, calls>>
    /\ UNCHANGED <<normVars, simVars, runVars, sigVars, selfVars, mainVars>>

\* line 232: return processed_items
LoadReturn ==
    /\ p_pc = "rows"
    /\ row_no > Len(csv.rows)
    /\ p_data' = processed_items
    /\ p_pc' = "loaded"
    /\ UNCHANGED <<csv, row_no, processed_items, save_no, out_file, p_result, calls, raised>>
    /\ UNCHANGED <<normVars, simVars, runVars, sigVars, selfVars, mainVars>>

\* lines 278-280: if not data: return []
ExitNoData ==
    /\ p_pc = "loaded"
    /\ p_data = <<>>
    /\ p_result' = <<>>
    /\ p_pc' = "returned"
    /\ UNCHANGED <<csv, row_no, processed_items, p_data, save_no, out_file, calls, raised>>
    /\ UNCHANGED <<normVars, simVars, runVars, sigVars, selfVars, mainVars>>

\* lines 283 and 242-243: deduplicate(data) is called and sets up its locals
CallDeduplicate ==
    /\ p_pc = "loaded"
    /\ p_data # <<>>
    /\ calls' = Append(calls, "deduplicate")
    /\ p_pc' = "dedup"
    /\ data' = p_data
    /\ corpus' = p_data
    /\ run' = 1
    /\ unique_items' = <<>>
    /\ duplicate_count' = 0
    /\ pc' = "loop"
    /\ item_no' = 1
    /\ scan_no' = 1
    /\ is_dup' = FALSE
    /\ log' = <<>>
    /\ UNCHANGED <<csv, row_no, processed_items, p_data, save_no, out_file, p_result, raised>>
    /\ UNCHANGED <<normVars, simVars, sigVars, selfVars, mainVars>>

\* lines 286 and 267: save_to_jsonl(unique_data, output_file) opens the file
CallSave ==
    /\ may_save(p_pc, pc)
    /\ calls' = Append(calls, "save_to_jsonl")
    /\ out_file' = <<>>
    /\ save_no' = 1
    /\ p_pc' = "save"
    /\ UNCHANGED <<csv, row_no, processed_items, p_data, p_result, raised>>
    /\ UNCHANGED <<normVars, simVars, runVars, sigVars, selfVars, mainVars>>

\* A plausible slip: the row number is left out of the line.
json_line_without_index(item) ==
    [key \in DOMAIN item \ {"original_index"} |-> item[key]]

\* line 269: json.dumps(item, ensure_ascii=False) + '\n'; a line is held as
\* the object it encodes, one member per key of the dict
json_line(item) == [key \in DOMAIN item |-> item[key]]

\* lines 268-269: one line written
WriteItem ==
    /\ p_pc = "save"
    /\ save_no <= Len(unique_items)
    /\ out_file' = Append(out_file, json_line(unique_items[save_no]))
    /\ save_no' = save_no + 1
    /\ UNCHANGED <<p_pc, csv, row_no, processed_items, p_data, p_result, calls, raised>>
    /\ UNCHANGED <<normVars, simVars, runVars, sigVars, selfVars, mainVars>>

\* line 288: return unique_data
ReturnUnique ==
    /\ p_pc = "save"
    /\ save_no > Len(unique_items)
    /\ p_result' = unique_items
    /\ p_pc' = "returned"
    /\ UNCHANGED <<csv, row_no, processed_items, p_data, save_no, out_file, calls, raised>>
    /\ UNCHANGED <<normVars, simVars, runVars, sigVars, selfVars, mainVars>>

PipeNext ==
    \/ ReadCsv \/ ReadCsvRaises \/ LoadRow \/ LoadRowRaises \/ LoadReturn
    \/ ExitNoData \/ CallDeduplicate
    \/ NextItem \/ CompareOne \/ KeepItem \/ Return
    \/ CallSave \/ WriteItem \/ ReturnUnique

SpecPipe == PipeInit /\ [][PipeNext]_vars

(***************************************************************************)
(* main() and the execution logger,                                        *)
(* Financial-MCP-Agent/src/main.py:87-528 and                              *)
(* Financial-MCP-Agent/src/utils/execution_logger.py.                      *)
(* An execution id is a timestamp plus eight characters of a uuid4, taken  *)
(* as unique: a logger is identified with the index of the directory its   *)
(* constructor created.  A directory is held as what its files record.     *)
(***************************************************************************)
MaxLlmLogs == 2

AgentNames == {"fundamental_agent", "value_agent", "summary_agent"}

\* the messages of the exceptions explored
Errors == {"workflow failed", "no final report"}

\* _create_execution_dir and _log_execution_start, lines 38-68
NewExecutionDir ==
    [status |-> "started", error |-> NoError, agents |-> {},
     llm_interactions |-> 0, final_report |-> FALSE]

\* ExecutionLogger.__init__, lines 17-30: the directories after one more
\* logger was constructed; the new logger is the last one
ExecutionLogger(dirs) == Append(dirs, NewExecutionDir)

\* initialize_execution_logger, lines 338-342
initialize_execution_logger(dirs) ==
    [logger |-> Len(dirs) + 1, dirs |-> ExecutionLogger(dirs)]

\* get_execution_logger, lines 330-335: the logger returned, which is also
\* the value of the global afterwards, and the directories
get_execution_logger(global, dirs) ==
    IF global = NoLogger
    THEN [logger |-> Len(dirs) + 1, dirs |-> ExecutionLogger(dirs)]
    ELSE [logger |-> global, dirs |-> dirs]

\* finalize_execution, lines 184-211
finalize_execution(dirs, logger, success, error) ==
    [dirs EXCEPT ![logger].status = IF success THEN "completed" ELSE "failed",
                 ![logger].error = error]

\* finalize_execution_logger, lines 345-350: the global afterwards and the
\* directories
finalize_execution_logger(global, dirs, success, error) ==
    IF global # NoLogger
    THEN [logger |-> NoLogger, dirs |-> finalize_execution(dirs, global, success, error)]
    ELSE [logger |-> global, dirs |-> dirs]

\* log_agent_start, lines 70-83
log_agent_start(dirs, logger, agent_name) ==
    [dirs EXCEPT ![logger].agents = @ \cup {agent_name}]

\* log_llm_interaction, lines 106-145
log_llm_interaction(dirs, logger) ==
    [dirs EXCEPT ![logger].llm_interactions = @ + 1]

\* log_final_report, lines 167-182
log_final_report(dirs, logger) ==
    [dirs EXCEPT ![logger].final_report = TRUE]

\* the process has started and the module global is None (line 327)
MainInit ==
    /\ self = NewInstance
    /\ m_pc = "start"
    /\ global_logger = NoLogger
    /\ execution_logger = NoLogger
    /\ execution_dirs = <<>>
    /\ m_error = NoError
    /\ printed = NoLogger
    /\ NormIdle
    /\ SimIdle
    /\ RunIdle
    /\ SigIdle
    /\ PipeIdle

\* main.py:102: execution_logger = initialize_execution_logger()
InitializeLogger ==
    /\ m_pc = "start"
    /\ LET made == initialize_execution_logger(execution_dirs)
       IN  /\ global_logger' = made.logger
           /\ execution_logger' = made.logger
           /\ execution_dirs' = made.dirs
    /\ m_pc' = "try"
    /\ UNCHANGED <<m_error, printed>>
    /\ UNCHANGED <<normVars, simVars, runVars, sigVars, pipeVars, selfVars>>

\* main.py:238: execution_logger.log_agent_start("main", ...)
LogQuery ==
    /\ m_pc = "try"
    /\ "main" \notin execution_dirs[execution_logger].agents
    /\ execution_dirs' = log_agent_start(execution_dirs, execution_logger, "main")
    /\ UNCHANGED <<m_pc, global_logger, execution_logger, m_error, printed>>
    /\ UNCHANGED <<normVars, simVars, runVars, sigVars, pipeVars, selfVars>>

\* agents/*.py (e.g. value_agent.py:42-52): an agent of the workflow takes the
\* logger from get_execution_logger() and records its start
AgentStart ==
    /\ m_pc = "try"
    /\ "main" \in execution_dirs[execution_logger].agents
    /\ \E agent_name \in AgentNames :
          LET got == get_execution_logger(global_logger, execution_dirs)
          IN  /\ agent_name \notin got.dirs[got.logger].agents
              /\ global_logger' = got.logger
              /\ execution_dirs' = log_agent_start(got.dirs, got.logger, agent_name)
    /\ UNCHANGED <<m_pc, execution_logger, m_error, printed>>
    /\ UNCHANGED <<normVars, simVars, runVars, sigVars, pipeVars, selfVars>>

\* agents/*.py (e.g. value_agent.py:210): a started agent records an LLM call
LlmInteraction ==
    /\ m_pc = "try"
    /\ LET got == get_execution_logger(global_logger, execution_dirs)
       IN  /\ got.dirs[got.logger].agents \cap AgentNames # {}
           /\ got.dirs[got.logger].llm_interactions < MaxLlmLogs
           /\ global_logger' = got.logger
           /\ execution_dirs' = log_llm_interaction(got.dirs, got.logger)
    /\ UNCHANGED <<m_pc, execution_logger, m_error, printed>>
    /\ UNCHANGED <<normVars, simVars, runVars, sigVars, pipeVars, selfVars>>

\* main.py:504: execution_logger.log_final_report(...)
LogFinalReport ==
    /\ m_pc = "try"
    /\ "summary_agent" \in execution_dirs[execution_logger].agents
    /\ ~execution_dirs[execution_logger].final_report
    /\ execution_dirs' = log_final_report(execution_dirs, execution_logger)
    /\ UNCHANGED <<m_pc, global_logger, execution_logger, m_error, printed>>
    /\ UNCHANGED <<normVars, simVars, runVars, sigVars, pipeVars, selfVars>>

\* main.py:106-518: a statement of the try block raises
WorkflowRaises ==
    /\ m_pc = "try"
    /\ \E e \in Errors : m_error' = e
    /\ m_pc' = "except"
    /\ UNCHANGED <<global_logger, execution_logger, execution_dirs, printed>>
    /\ UNCHANGED <<normVars, simVars, runVars, sigVars, pipeVars, selfVars>>

\* main.py:515-516: finalize_execution_logger(success=True), then the
\* directory of the local execution_logger is printed
FinishOk ==
    /\ m_pc = "try"
    /\ "main" \in execution_dirs[execution_logger].agents
    /\ LET ended == finalize_execution_logger(global_logger, execution_dirs, TRUE, NoError)
       IN  /\ global_logger' = ended.logger
           /\ execution_dirs' = ended.dirs
    /\ printed' = execution_logger
    /\ m_pc' = "done"
    /\ UNCHANGED <<execution_logger, m_error>>
    /\ UNCHANGED <<normVars, simVars, runVars, sigVars, pipeVars, selfVars>>

\* main.py:518-528: finalize_execution_logger(success=False, error=str(e)),
\* then the directory of get_execution_logger() is printed
HandleError ==
    /\ m_pc = "except"
    /\ LET ended == finalize_execution_logger(global_logger, execution_dirs, FALSE, m_error)
           got == get_execution_logger(ended.logger, ended.dirs)
       IN  /\ global_logger' = got.logger
           /\ execution_dirs' = got.dirs
           /\ printed' = got.logger
    /\ m_pc' = "done"
    /\ UNCHANGED <<execution_logger, m_error>>
    /\ UNCHANGED <<normVars, simVars, runVars, sigVars, pipeVars, selfVars>>

MainNext ==
    \/ InitializeLogger \/ LogQuery \/ AgentStart \/ LlmInteraction
    \/ LogFinalReport \/ WorkflowRaises \/ FinishOk \/ HandleError

SpecMain == MainInit /\ [][MainNext]_vars

(***************************************************************************)
(* The claims.                                                             *)
(***************************************************************************)
RECURSIVE IsSubsequence(_, _)
IsSubsequence(u, d) ==
    IF u = <<>> THEN TRUE
    ELSE IF d = <<>> THEN FALSE
    ELSE IF Head(u) = Head(d) THEN IsSubsequence(Tail(u), Tail(d))
    ELSE IsSubsequence(u, Tail(d))

\* C1: the list deduplicate builds and returns is a subsequence of its
\* input: only input records, each input position at most once, in the
\* order of the input (at every step, of the records processed so far).
C1_OutputIsSubsequence ==
    /\ IsSubsequence(unique_items, SubSeq(data, 1, item_no - 1))
    /\ pc = "done" => IsSubsequence(unique_items, data)

\* C1 witness: a finished first call that dropped the middle one of three
\* records and returned the other two in input order.
C1_Witness ==
    /\ pc = "done"
    /\ run = 1
    /\ Len(data) = 3
    /\ unique_items = <<data[1], data[3]>>

\* C2: deduplicate applied to its own result returns that result unchanged.
C2_Idempotent ==
    (pc = "done" /\ run = 2) => unique_items = data

\* C2 witness: the second call has returned, on a result of two or more
\* records from which the first call had removed a record.
C2_Witness ==
    /\ pc = "done"
    /\ run = 2
    /\ Len(data) >= 2
    /\ Len(corpus) > Len(data)

\* C3 (as claimed): two records with the same normalized title and the same
\* body are duplicates, so the returned list never holds two such records.
C3_IdenticalRecordsCollapse ==
    pc = "done" =>
        \A a, b \in 1..Len(unique_items) :
            a < b =>
                ~(/\ unicode_normalize(unique_items[a].title)
                        = unicode_normalize(unique_items[b].title)
                  /\ unique_items[a].doc = unique_items[b].doc)

\* C4: is_duplicate is true exactly when title similarity > 0.8, content
\* overlap > 0.75 and semantic distance <= 3 all hold; a similarity of
\* exactly 0.8 or an overlap of exactly 0.75 is not a duplicate.
C4_TripleThreshold ==
    s_pc # "in" =>
        (s_fwd.dup <=> (/\ s_fwd.title_sim[1] * 10 > 8 * s_fwd.title_sim[2]
                        /\ s_fwd.content_sim[1] * 100 > 75 * s_fwd.content_sim[2]
                        /\ s_fwd.semantic_dist <= 3))

\* C4 witness: a pair whose title similarity is exactly 0.8 while the two
\* other conditions hold, judged not a duplicate.
C4_Witness ==
    /\ s_pc = "compared"
    /\ s_fwd.title_sim[1] * 10 = 8 * s_fwd.title_sim[2]
    /\ s_fwd.content_sim[1] * 100 > 75 * s_fwd.content_sim[2]
    /\ s_fwd.semantic_dist <= 3
    /\ ~s_fwd.dup

\* The entry of log for each record processed tells where its scan ended;
\* UniquesBefore(e) is unique_items as it was when that scan began.
UniquesBefore(e) == SubSeq(unique_items, 1, e.before)

\* C5: each record is compared with the kept records in insertion order;
\* the scan stops at the first one it duplicates and the record is not
\* added, and with no match it is appended at the end.  So a record is kept
\* if and only if it duplicates none of the records kept before it.
C5_ScanStopsAtFirstMatch ==
    pc = "done" =>
        \A h \in 1..Len(log) :
            LET e == log[h]
                r == data[e.idx]
                U == UniquesBefore(e)
            IN  /\ e.kept <=> (\A k \in 1..e.before : ~is_duplicate(r, U[k]))
                /\ e.kept => /\ e.compared = e.before
                             /\ Len(unique_items) > e.before
                             /\ unique_items[e.before + 1] = r
                /\ ~e.kept => /\ e.compared \in 1..e.before
                              /\ is_duplicate(r, U[e.compared])
                              /\ \A k \in 1..(e.compared - 1) : ~is_duplicate(r, U[k])

\* C5 witness: a finished call in which one record's scan stopped at a match
\* before the end of the kept list, and a later record was appended.
C5_Witness ==
    /\ pc = "done"
    /\ \E h \in 1..Len(log) : ~log[h].kept /\ log[h].compared < log[h].before
    /\ \E h \in 1..Len(log) : log[h].kept /\ log[h].before >= 1

\* C6: within one call unique_items starts empty and each step leaves it
\* unchanged or appends exactly one record at its end.
C6_UniqueItemsOnlyGrows ==
    /\ unique_items = <<>>
    /\ [][run' = run =>
            \/ unique_items' = unique_items
            \/ \E k \in 1..Len(data) : unique_items' = Append(unique_items, data[k])]_vars

\* C6 witness: a call that has kept two records and skipped a duplicate.
C6_Witness ==
    /\ pc = "loop"
    /\ Len(unique_items) >= 2
    /\ duplicate_count >= 1

\* C7 (as claimed): unicode_normalize applied to its own result changes
\* nothing.
C7_NormalizeIdempotent ==
    n_pc = "twice" => n_again = n_out

\* C8 (as claimed): the result of unicode_normalize holds only CJK
\* ideographs, ASCII digits and letters, whitespace and . ! ? , ; : and has
\* no leading or trailing whitespace and no two whitespace characters in a
\* row.
C8_NormalizedForm ==
    n_pc # "in" =>
        /\ \A k \in 1..Len(n_out) : Allowed(n_out[k])
        /\ n_out # <<>> => ~IsSpace(n_out[1]) /\ ~IsSpace(n_out[Len(n_out)])
        /\ \A k \in 1..(Len(n_out) - 1) : ~(IsSpace(n_out[k]) /\ IsSpace(n_out[k + 1]))

\* C9 (as claimed): title_similarity(x, x) is 1.0 whenever x normalizes to a
\* non-empty text.
C9_SelfSimilarityIsOne ==
    (/\ s_pc # "in"
     /\ TitleOf(s_item1) = TitleOf(s_item2)
     /\ unicode_normalize(TitleOf(s_item1)) # <<>>)
    => s_fwd.title_sim[1] = s_fwd.title_sim[2]

\* C10: title_similarity, content_overlap and semantic_similarity give the
\* same value with their arguments exchanged, and so does is_duplicate.
C10_Symmetric ==
    s_pc = "swapped" =>
        /\ FracEq(s_fwd.title_sim, s_rev.title_sim)
        /\ FracEq(s_fwd.content_sim, s_rev.content_sim)
        /\ s_fwd.semantic_dist = s_rev.semantic_dist
        /\ s_fwd.dup = s_rev.dup

\* C10 witness: both orders computed for two different records with titles
\* of different lengths and signals strictly between their extremes.
C10_Witness ==
    /\ s_pc = "swapped"
    /\ Len(TitleOf(s_item1)) # Len(TitleOf(s_item2))
    /\ s_fwd.title_sim[1] \in 1..(s_fwd.title_sim[2] - 1)
    /\ s_fwd.content_sim[1] \in 1..(s_fwd.content_sim[2] - 1)
    /\ s_fwd.semantic_dist > 0
    /\ s_fwd.dup

\* A cell of a table is absent when the table has no such column or the
\* row's value is missing (NaN) or the empty string.
Absent(row, columns, key) ==
    key \notin columns \/ row[key].isna \/ row[key].text = <<>>

\* C11 (as claimed): the body of a record is the first non-empty of Article
\* and Textrank_summary: a record built from a row whose Article is missing
\* or empty and whose Textrank_summary is not has the normalized
\* Textrank_summary as its doc.
C11_BodyFallsBackToSummary ==
    \A k \in 1..Len(processed_items) :
        LET item == processed_items[k]
            row == csv.rows[item.original_index + 1]
        IN  (/\ Absent(row, csv.columns, "Article")
             /\ ~Absent(row, csv.columns, "Textrank_summary"))
            => item.doc = unicode_normalize(row["Textrank_summary"].text)

\* The records of a list all have a non-empty doc.
NoEmptyDoc(items) == \A k \in 1..Len(items) : items[k].doc # <<>>

\* C12: a row whose body is empty after normalization yields no record, so
\* no record with an empty doc is in the list load_and_preprocess_data
\* builds and returns, in what deduplicate keeps, in the lines written or in
\* what process_dataset returns.
C12_EmptyBodyDropped ==
    /\ \A r \in 1..(row_no - 1) :
          unicode_normalize(article_content(csv.rows[r], csv.columns)) = <<>>
              => \A k \in 1..Len(processed_items) :
                    processed_items[k].original_index # r - 1
    /\ NoEmptyDoc(processed_items)
    /\ NoEmptyDoc(p_data)
    /\ NoEmptyDoc(data)
    /\ NoEmptyDoc(unique_items)
    /\ NoEmptyDoc(out_file)
    /\ NoEmptyDoc(p_result)

\* C12 witness: process_dataset returned records of a table one of whose
\* rows had a body that is empty after normalization.
C12_Witness ==
    /\ p_pc = "returned"
    /\ p_result # <<>>
    /\ \E r \in 1..Len(csv.rows) :
          /\ article_content(csv.rows[r], csv.columns) # <<>>
          /\ unicode_normalize(article_content(csv.rows[r], csv.columns)) = <<>>

\* C13 (as claimed): labels is "risk_score:<value>" when the row has a risk
\* score and the empty string when it has none, be it that the table has no
\* risk_deepseek column or that the row's value is missing.
C13_LabelsEmptyWithoutScore ==
    \A k \in 1..Len(processed_items) :
        LET item == processed_items[k]
            row == csv.rows[item.original_index + 1]
        IN  IF "risk_deepseek" \in csv.columns /\ ~row["risk_deepseek"].isna
            THEN item.labels = RiskScorePrefix \o row["risk_deepseek"].text
            ELSE item.labels = <<>>

\* C14: when read_csv or the handling of a row raises,
\* load_and_preprocess_data returns the empty list whatever it had built,
\* and process_dataset calls neither deduplicate nor save_to_jsonl, writes
\* nothing and returns the empty list.
C14_LoadFailureAborts ==
    raised =>
        /\ p_data = <<>>
        /\ calls = <<"load_and_preprocess_data">>
        /\ data = <<>> /\ unique_items = <<>> /\ log = <<>>
        /\ out_file = <<>>
        /\ p_pc \in {"loaded", "returned"}
        /\ p_result = <<>>

\* C14 witness: process_dataset has returned after the second row raised,
\* the record of the first row discarded.
C14_Witness ==
    /\ raised
    /\ p_pc = "returned"
    /\ row_no = 2
    /\ processed_items # <<>>

\* C15: when the vectorizer fails on a pair of titles (no token of either
\* survives), title_similarity still returns a value, half of the edit
\* similarity, and deduplicate goes on to process every record.
C15_VectorizerFailureDegrades ==
    pc = "done" =>
        /\ \A a, b \in 1..Len(data) :
              LET t1 == unicode_normalize(TitleOf(data[a]))
                  t2 == unicode_normalize(TitleOf(data[b]))
                  edit_sim == edit_distance(t1, t2)
              IN  (t1 # <<>> /\ t2 # <<>> /\ VectorizerFails(t1, t2))
                  => FracEq(title_similarity(TitleOf(data[a]), TitleOf(data[b])),
                            <<edit_sim[1], 2 * edit_sim[2]>>)
        /\ Len(log) = Len(data)

\* C15 witness: a finished call in which the second record was compared
\* with the first, both titles without a token, and a third record was
\* processed after them.
C15_Witness ==
    /\ pc = "done"
    /\ Len(data) = 3
    /\ Len(log) = 3
    /\ log[2].compared = 1
    /\ VectorizerFails(unicode_normalize(TitleOf(data[1])),
                       unicode_normalize(TitleOf(data[2])))
    /\ unicode_normalize(TitleOf(data[1])) # <<>>

\* The Levenshtein distance by its recurrence.
RECURSIVE LevenshteinDistance(_, _)
LevenshteinDistance(a, b) ==
    IF a = <<>> THEN Len(b)
    ELSE IF b = <<>> THEN Len(a)
    ELSE IF Head(a) = Head(b) THEN LevenshteinDistance(Tail(a), Tail(b))
    ELSE 1 + Min2(LevenshteinDistance(Tail(a), Tail(b)),
                  Min2(LevenshteinDistance(Tail(a), b),
                       LevenshteinDistance(a, Tail(b))))

\* C16: title_similarity is in [0,1] and is the mean of the edit similarity
\* 1 - levenshtein(a,b)/max(len(a),len(b)) and the cosine similarity (kept
\* in thousandths), both taken as 0 when a normalized title is empty.
C16_TitleSimilarityIsMean ==
    s_pc # "in" =>
        LET t1 == unicode_normalize(TitleOf(s_item1))
            t2 == unicode_normalize(TitleOf(s_item2))
            max_len == Max2(Len(t1), Len(t2))
            sim == s_fwd.title_sim
        IN  /\ sim[2] > 0 /\ 0 <= sim[1] /\ sim[1] <= sim[2]
            /\ IF t1 = <<>> \/ t2 = <<>>
               THEN sim[1] = 0
               ELSE sim[1] * 2000 * max_len
                      = sim[2] * ((max_len - LevenshteinDistance(t1, t2)) * 1000
                                  + cosine(t1, t2) * max_len)

\* C16 witness: two titles whose edit similarity and cosine similarity both
\* lie strictly between 0 and 1.
C16_Witness ==
    /\ s_pc = "compared"
    /\ LET t1 == unicode_normalize(TitleOf(s_item1))
           t2 == unicode_normalize(TitleOf(s_item2))
       IN  /\ t1 # <<>> /\ t2 # <<>>
           /\ Levenshtein(t1, t2) \in 1..(Max2(Len(t1), Len(t2)) - 1)
           /\ cosine(t1, t2) \in 1..999
    /\ s_fwd.title_sim[1] \in 1..(s_fwd.title_sim[2] - 1)

\* The number of positions at which two sequences of one length agree.
RECURSIVE Agreements(_, _)
Agreements(a, b) ==
    IF a = <<>> THEN 0
    ELSE (IF Head(a) = Head(b) THEN 1 ELSE 0) + Agreements(Tail(a), Tail(b))

C18_SelfDistanceIsZero ==
    (s_pc # "in" /\ s_item1.doc = s_item2.doc) => s_fwd.semantic_dist = 0

\* C18 witness: a text with a fingerprint other than 0 compared with itself.
C18_Witness ==
    /\ s_pc = "compared"
    /\ s_item1.doc = s_item2.doc
    /\ simhash(s_item1.doc) # {}
    /\ s_fwd.semantic_dist = 0

\* The vote of a list of words for bit i: +1 for each word whose MD5 has bit
\* i set, -1 for each other word.
RECURSIVE Vote(_, _)
Vote(words, i) ==
    IF words = <<>> THEN 0
    ELSE (IF i \in hash_string(Head(words)) THEN 1 ELSE -1) + Vote(Tail(words), i)

\* The fingerprint of a text is below 2^64 and has bit i set exactly when
\* the vote for bit i is positive.
FingerprintOfVotes(text) ==
    LET words == Cut(unicode_normalize(text))
        fingerprint == simhash(text)
    IN  /\ fingerprint \subseteq 0..63
        /\ fingerprint = {i \in 0..63 : Vote(words, i) > 0}
        /\ words = <<>> => fingerprint = {}

\* C19: every SimHash fingerprint is in [0, 2^64), bit i set exactly when
\* the vote for bit i is strictly positive (a tie gives 0), 0 for an empty
\* word list; so semantic_similarity is in 0..64 although the word hashes
\* have 128 bits.
C19_FingerprintIs64Bits ==
    s_pc # "in" =>
        /\ FingerprintOfVotes(s_item1.doc)
        /\ FingerprintOfVotes(s_item2.doc)
        /\ s_fwd.semantic_dist \in 0..64

\* C19 witness: two texts at a distance above 0, one of them with a tied
\* vote at some bit and with a word whose MD5 has a bit set above bit 63.
C19_Witness ==
    /\ s_pc = "compared"
    /\ s_fwd.semantic_dist > 0
    /\ LET words == Cut(unicode_normalize(s_item1.doc))
       IN  /\ \E i \in 0..63 : Vote(words, i) = 0
           /\ \E k \in 1..Len(words) : \E i \in 64..127 : i \in hash_string(words[k])

\* C20: process_dataset runs load, deduplicate, save in that order:
\* deduplicate is called only with the whole table loaded, and nothing is
\* written before deduplicate has processed every record and returned.
C20_LoadThenDeduplicateThenSave ==
    /\ \E n \in 1..3 :
          calls = SubSeq(<<"load_and_preprocess_data", "deduplicate", "save_to_jsonl">>, 1, n)
    /\ Len(calls) >= 2 =>
          /\ row_no > Len(csv.rows)
          /\ p_data = processed_items
          /\ data = p_data
    /\ (Len(calls) >= 3 \/ out_file # <<>>) =>
          /\ pc = "done"
          /\ item_no > Len(data)
          /\ Len(log) = Len(data)

\* C20 witness: save_to_jsonl has written the first of two records that
\* deduplicate kept.
C20_Witness ==
    /\ p_pc = "save"
    /\ Len(unique_items) = 2
    /\ out_file = <<unique_items[1]>>

RECURSIVE FoldUnique(_, _, _)
FoldUnique(records, k, uniques) ==
    IF k > Len(records) THEN uniques
    ELSE IF \E h \in 1..Len(uniques) : is_duplicate(records[k], uniques[h])
         THEN FoldUnique(records, k + 1, uniques)
         ELSE FoldUnique(records, k + 1, Append(uniques, records[k]))

\* what a fresh instance returns for the list L
FreshOutput(L) == FoldUnique(L, 1, <<>>)

\* C21: however many times deduplicate has been called on one instance, and
\* in whatever order, the list it returns for an input L is the list a fresh
\* instance returns for L.
C21_OutputDependsOnlyOnInput ==
    pc = "done" => unique_items = FreshOutput(data)

\* a later call on the same instance has returned, after dropping a record
C21_Witness ==
    /\ pc = "done"
    /\ run = MaxCalls
    /\ Len(unique_items) < Len(data)
    /\ unique_items = FreshOutput(data)

\* C22: a step of a running deduplicate call leaves the input list and its
\* records as the caller passed them, and leaves the instance's thresholds,
\* permutation count and processed_data as they were.
C22_NoSideEffectBeyondUniqueItems ==
    [][pc # "done" => /\ data' = data
                      /\ data' = corpus
                      /\ self' = self]_vars

\* a call on a three-record input has returned with a record dropped, the
\* input and the instance being what they were at the call
C22_Witness ==
    /\ pc = "done"
    /\ Len(data) = 3
    /\ duplicate_count > 0
    /\ data = corpus
    /\ self = NewInstance

RecordKeys ==
    {"source", "doc", "labels", "title", "stock_symbol", "date", "original_index"}

\* C23: save_to_jsonl writes one line per surviving record, in the order of
\* the deduplicated list, and every line process_dataset writes carries the
\* seven keys source, doc, labels, title, stock_symbol, date, original_index.
C23_OneLinePerSurvivorInOrder ==
    /\ p_pc = "save" =>
          /\ Len(out_file) = save_no - 1
          /\ \A k \in 1..Len(out_file) : out_file[k] = unique_items[k]
    /\ (p_pc = "returned" /\ Len(calls) = 3) =>
          /\ Len(out_file) = Len(p_result)
          /\ \A k \in 1..Len(out_file) : out_file[k] = p_result[k]
    /\ \A k \in 1..Len(out_file) : DOMAIN out_file[k] = RecordKeys

\* process_dataset has returned after writing two lines, in row order
C23_Witness ==
    /\ p_pc = "returned"
    /\ Len(out_file) = 2
    /\ out_file[1].original_index < out_file[2].original_index
    /\ out_file = p_result

Kept(record) == \E h \in 1..Len(unique_items) : unique_items[h] = record

\* C24: every record deduplicate drops is a duplicate of at least one record
\* that is in the output and precedes it in the input; no record is dropped
\* on account of a record that was itself dropped.
C24_DroppedMatchesAKeptPredecessor ==
    pc = "done" =>
        \A h \in 1..Len(log) :
            ~log[h].kept =>
                \E k \in 1..(log[h].idx - 1) :
                    /\ Kept(data[k])
                    /\ is_duplicate(data[log[h].idx], data[k])

\* a finished call in which the second record was dropped and the third,
\* although a duplicate of the dropped one, was kept
C24_Witness ==
    /\ pc = "done"
    /\ Len(data) = 3
    /\ Len(log) = 3
    /\ ~log[2].kept
    /\ log[3].kept
    /\ is_duplicate(data[3], data[2])

\* C25: the output of deduplicate is pairwise unique (for u_i before u_j in
\* the output, is_duplicate(u_j, u_i) is false), and the first record of a
\* non-empty input is always kept.
C25_OutputPairwiseUnique ==
    pc = "done" =>
        /\ \A i, j \in 1..Len(unique_items) :
               i < j => ~is_duplicate(unique_items[j], unique_items[i])
        /\ data # <<>> => /\ unique_items # <<>>
                          /\ unique_items[1] = data[1]

\* a finished call that kept three records: three pairs to compare
C25_Witness ==
    /\ pc = "done"
    /\ Len(unique_items) = 3
    /\ unique_items[1] = data[1]
    /\ \A i, j \in 1..3 : i < j => ~is_duplicate(unique_items[j], unique_items[i])

Dropped == {h \in 1..Len(log) : ~log[h].kept}

\* C26: counts are conserved throughout a run: after each record the number
\* of records processed is duplicate_count + len(unique_items), a dropped
\* record is counted once however many kept records it matches, and at the
\* end len(data) = duplicate_count + len(unique_items).
C26_CountsConserved ==
    /\ pc \in {"loop", "scan"} => item_no - 1 = duplicate_count + Len(unique_items)
    /\ duplicate_count = Cardinality(Dropped)
    /\ pc = "done" => Len(data) = duplicate_count + Len(unique_items)

\* a finished call whose one dropped record matches two kept records
C26_Witness ==
    /\ pc = "done"
    /\ duplicate_count = 1
    /\ Len(unique_items) = 2
    /\ \E h \in Dropped :
          \A k \in 1..2 : is_duplicate(data[log[h].idx], unique_items[k])

RECURSIVE SumCompared(_)
SumCompared(entries) ==
    IF entries = <<>> THEN 0 ELSE Head(entries).compared + SumCompared(Tail(entries))

\* the is_duplicate calls made so far in the running call
Comparisons == SumCompared(log) + (IF pc = "scan" THEN scan_no - 1 ELSE 0)

\* C27: deduplicate terminates on every finite input of n records after at
\* most n(n-1)/2 calls to is_duplicate, and the comparisons made for one
\* record never exceed the number of records kept before it.
C27_TerminatesWithinQuadraticComparisons ==
    /\ [](/\ 2 * Comparisons <= Len(data) * (Len(data) - 1)
          /\ \A h \in 1..Len(log) : log[h].compared <= log[h].before
          /\ pc = "scan" => scan_no - 1 <= Len(unique_items))
    /\ (pc # "done") ~> (pc = "done")

\* a finished call on three records that needed all three comparisons
C27_Witness ==
    /\ pc = "done"
    /\ Len(data) = 3
    /\ Comparisons = 3

ZeroSignature == [i \in 1..minhash_permutations |-> 0]

FewWords(text) == Len(Cut(unicode_normalize(text))) < ShingleK

\* C28: get_shingles returns a non-empty set for every text, also for one
\* that normalizes to the empty string; a text of fewer than 3 words yields
\* the singleton of its normalized text; so content_overlap never computes
\* the all-zero signature of an empty shingle set.
C28_ShinglesNeverEmpty ==
    j_pc = "overlap" =>
        \A text \in {j_text1, j_text2} :
            LET shingles == get_shingles(text)
            IN  /\ shingles # {}
                /\ FewWords(text) => shingles = {unicode_normalize(text)}
                /\ minhash_signature(shingles) # ZeroSignature

\* content_overlap has run on a text that normalizes to the empty string and
\* on a one-word text
C28_Witness ==
    /\ j_pc = "overlap"
    /\ j_text1 = DocAt
    /\ unicode_normalize(j_text1) = <<>>
    /\ get_shingles(j_text1) = {<<>>}
    /\ j_text2 = TitleAb
    /\ get_shingles(j_text2) = {TitleAb}

\* C29: when the workflow in main() raises, the error-log directory reported
\* to the user is the execution directory of the logger initialized for the
\* run, the one that recorded the failure; get_execution_logger called after
\* finalize_execution_logger creates no new logger and no new directory.
C29_ErrorDirectoryIsTheRunsDirectory ==
    (m_pc = "done" /\ m_error # NoError) =>
        /\ printed = execution_logger
        /\ execution_dirs[printed].status = "failed"
        /\ execution_dirs[printed].error = m_error
        /\ Len(execution_dirs) = 1

====
